---- MODULE Spec2Model ----
(***************************************************************************)
(* The multi-file upload pipeline of zapdos-js: uploadWithSignedUrls       *)
(* (src/src/base-client.ts), batchUpload, axiosUpload,                     *)
(* prepareMinimalCallbacks, updateObjectMetadata and handleStream          *)
(* (src/src/utils.ts), unextendCallbacks (src/src/types.ts).               *)
(*                                                                         *)
(* JavaScript runs every callback to completion, so one action is one task *)
(* of the event loop: the call itself, one network response, one record of *)
(* a response stream, one continuation of an await.                        *)
(*                                                                         *)
(* Spec is the pipeline. handleStream, parseNDJSONStream and               *)
(* parseSignedUrl are also run on their own, over all their inputs up to   *)
(* a bound: RelaySpec, DecoderSpec and ResolverSpec.                       *)
(***************************************************************************)
EXTENDS Integers, Sequences, FiniteSets, TLC

\* Largest batch the caller submits.
MaxFiles == 2
\* Progress events and stream records the environment produces in one run.
MaxEvents == 2

undefined == "undefined"

VARIABLES
  call,      \* the promise returned by uploadWithSignedUrls: idle, running, resolved, rejected
  on,        \* the caller's callback tree
  items,     \* the UploadItem list given by the caller
  axItems,   \* the AxiosUploadItem list built for batchUpload
  putReq,    \* per file, the byte-transport request issued
  patchReq,  \* per file, the metadata-commit requests issued (a sequence)
  phase,     \* per file, where its pipeline stands
  xfer,      \* per file, how its transport ended: none, ok, failed
  commit,    \* per file, how its commit request ended: none, rejected, nobody, stream
  promise,   \* per file, the state of its uploadPromise
  calls,     \* per file, the invocations of the caller's handlers, in order
  first,     \* the file whose promise was settled first, 0 while none is
  result,    \* the list the call resolved with
  events,    \* progress events and stream records produced so far
  relay,     \* one handleStream run over a whole stream: its input and its progress
  decoder,   \* one parseNDJSONStream run: the chunks to come, its buffer, its yields
  resolver,  \* one parseSignedUrl call: its URL, what it extracted, how it ended
  transform, \* one unextendCallbacks call and the calls of the handlers it returned
  applied,   \* one call of a function that returns at once: its input and its result
  consumer,  \* one for-await loop over parseNDJSONStream: the generator and its consumer
  download   \* one download or downloadBatch call: its loop over the ids and its result

\* The state of the upload pipeline.
pipe == <<call, on, items, axItems, putReq, patchReq, phase, xfer, commit, promise,
          calls, first, result, events>>
\* The state of the functions run on their own.
aux == <<relay, decoder, resolver, transform, applied, consumer,
         download>>

vars == <<pipe, aux>>

-----------------------------------------------------------------------------
(* Signed URLs *)

ObjIdParam == "X-Zapdos-Obj-Id"
TokenParam == "X-Zapdos-Token"

ObjIdOf(k) == "obj" \o ToString(k)
TokenOf(k) == "tok" \o ToString(k)

\* A URL string, by what new URL() makes of it: whether it parses, and its
\* query parameters in order.
SampleUrl(k, kind) ==
  LET sig == [name |-> "sig", value |-> "s"]
      obj == [name |-> ObjIdParam, value |-> ObjIdOf(k)]
      tok == [name |-> TokenParam, value |-> TokenOf(k)]
  IN CASE kind = "good"        -> [parseable |-> TRUE, host |-> "store", query |-> <<obj, sig, tok>>]
       [] kind = "noToken"     -> [parseable |-> TRUE, host |-> "store", query |-> <<obj, sig>>]
       [] kind = "emptyObjId"  -> [parseable |-> TRUE, host |-> "store",
                                   query |-> <<[name |-> ObjIdParam, value |-> ""], tok>>]
       [] kind = "unparseable" -> [parseable |-> FALSE, host |-> "", query |-> <<obj, tok>>]

UrlKinds == {"good", "noToken", "emptyObjId", "unparseable"}

RECURSIVE SearchGet(_, _)
\* URLSearchParams.get: the first value of the name, or null.
SearchGet(query, name) ==
  IF query = <<>> THEN "null"
  ELSE IF Head(query).name = name THEN Head(query).value
  ELSE SearchGet(Tail(query), name)

RECURSIVE SearchDeleteFirst(_, _)
\* A delete that stops at the first pair of that name.
SearchDeleteFirst(query, name) ==
  IF query = <<>> THEN <<>>
  ELSE IF Head(query).name = name THEN Tail(query)
  ELSE <<Head(query)>> \o SearchDeleteFirst(Tail(query), name)

RECURSIVE SearchDelete(_, _)
\* URLSearchParams.delete: every pair of that name goes.
SearchDelete(query, name) ==
  IF query = <<>> THEN <<>>
  ELSE IF Head(query).name = name THEN SearchDelete(Tail(query), name)
  ELSE <<Head(query)>> \o SearchDelete(Tail(query), name)

\* x ?? undefined: the empty string is kept.
OrUndefinedNullish(x) == IF x = "null" THEN undefined ELSE x

\* x || undefined, for x a string or null.
OrUndefined(x) == IF x = "null" \/ x = "" THEN undefined ELSE x

RECURSIVE extractLoop(_, _, _)
extractLoop(query, params, values) ==
  IF params = <<>> THEN [values |-> values, query |-> query]
  ELSE LET p == Head(params)
       IN extractLoop(SearchDelete(query, p), Tail(params),
                      [q \in (DOMAIN values) \cup {p} |->
                         IF q = p THEN OrUndefined(SearchGet(query, p)) ELSE values[q]])

NoValues == [q \in {} |-> undefined]

\* The extraction without the parse that can fail: the parameters are read
\* off the string whatever it is.
extractCustomParamsLenient(url, params) ==
  LET r == extractLoop(url.query, params, NoValues)
  IN [params |-> r.values, cleanedUrl |-> [url EXCEPT !.query = r.query]]

extractCustomParams(url, params) ==
  IF url.parseable
  THEN LET r == extractLoop(url.query, params, NoValues)
       IN [params |-> r.values, cleanedUrl |-> [url EXCEPT !.query = r.query]]
  ELSE [params |-> [q \in {params[j] : j \in DOMAIN params} |-> undefined],
        cleanedUrl |-> url]

parseSignedUrl(signedUrl) ==
  LET x == extractCustomParams(signedUrl, <<ObjIdParam, TokenParam>>)
      token == x.params[TokenParam]
      object_id == x.params[ObjIdParam]
  IN IF object_id = undefined \/ token = undefined
     THEN [threw |-> TRUE, message |-> "Malformed signed url"]
     ELSE [threw |-> FALSE, token |-> token, object_id |-> object_id,
           cleanedUrl |-> x.cleanedUrl]

-----------------------------------------------------------------------------
(* Callback trees *)

\* A callback tree, by whether the caller passed one and the handlers it holds.
NoTree == [present |-> FALSE, handlers |-> {}]
Tree(hs) == [present |-> TRUE, handlers |-> hs]
TopHandlers == {"onProgress", "onStored", "onCompleted", "onFailed"}
JobHandlers == {"job.onIndexingStarted", "job.onIndexingCompleted",
                "job.onIndexingFailed", "job.onTranscription"}
AllHandlers == TopHandlers \cup JobHandlers
\* The trees a caller passes: none, an empty one, a full one.
Trees == {NoTree, Tree({}), Tree(AllHandlers)}

EmptyArg == [k \in {} |-> 0]

\* { ...e, ...a }: the keys of the argument win.
MergeArgWins(a, e) == [k \in (DOMAIN a) \cup (DOMAIN e) |-> IF k \in DOMAIN a THEN a[k] ELSE e[k]]

\* { ...a, ...e }
Merge(a, e) == [k \in (DOMAIN a) \cup (DOMAIN e) |-> IF k \in DOMAIN e THEN e[k] ELSE a[k]]

\* The wrapper without the spread of ext: (arg) => value(arg).
unextendCallbacksNoExt(tree, ext, h, arg) ==
  IF ~tree.present THEN <<>>
  ELSE IF h \in tree.handlers THEN <<[h |-> h, arg |-> arg]>>
  ELSE <<>>

\* Calling handler h of unextendCallbacks(tree, ext) with arg: the calls of
\* the caller's handlers it makes.
unextendCallbacks(tree, ext, h, arg) ==
  IF ~tree.present THEN <<>>
  ELSE IF h \in tree.handlers THEN <<[h |-> h, arg |-> Merge(arg, ext)]>>
  ELSE <<>>

\* No call of resolve.
NoResolve == [kind |-> "none"]

\* The tag batchUpload gives the callbacks of an item.
FileIndexExt(fileIndex) == [file_index |-> fileIndex]

\* Calling handler h of prepareMinimalCallbacks(tree, fileIndex, resolve) with
\* arg: the caller's handlers called, and the value handed to resolve, if any.
prepareMinimalCallbacks(tree, fileIndex, h, arg) ==
  IF ~tree.present THEN [calls |-> <<>>, resolve |-> NoResolve]
  ELSE LET ext == FileIndexExt(fileIndex)
           res == Merge(arg, ext)
       IN CASE h = "onCompleted" ->
                 [calls |-> unextendCallbacks(tree, ext, h, res),
                  resolve |-> [kind |-> "data", value |-> res]]
            [] h = "onFailed" ->
                 [calls |-> unextendCallbacks(tree, ext, h, res),
                  resolve |-> [kind |-> "error", value |-> res]]
            [] OTHER ->
                 [calls |-> unextendCallbacks(tree, ext, h, arg),
                  resolve |-> NoResolve]

-----------------------------------------------------------------------------
(* Promises *)

Pending == [kind |-> "pending"]

\* A promise that every resolve overwrites.
ResolveLastWins(p, v) == IF v = NoResolve THEN p ELSE v

\* resolve(v) of a promise in state p: the first call settles it, later ones
\* do nothing.
Resolve(p, v) == IF v = NoResolve THEN p ELSE IF p = Pending THEN v ELSE p

\* The files of the running batch.
Files == DOMAIN phase

\* minimumCallbacks shared by the items instead of one per item: every call
\* lands on the callbacks of the last item.
FireOnLast(i, h, arg) ==
  LET j == Len(axItems)
      r == prepareMinimalCallbacks(on, axItems[j].index, h, arg)
      p == Resolve(promise[j], r.resolve)
  IN /\ calls' = [calls EXCEPT ![j] = @ \o r.calls]
     /\ promise' = [promise EXCEPT ![j] = p]
     /\ first' = IF p # promise[j] /\ first = 0 THEN j ELSE first

\* The effect on file i of calling handler h of its minimumCallbacks with arg.
Fire(i, h, arg) ==
  LET r == prepareMinimalCallbacks(on, axItems[i].index, h, arg)
      p == Resolve(promise[i], r.resolve)
  IN /\ calls' = [calls EXCEPT ![i] = @ \o r.calls]
     /\ promise' = [promise EXCEPT ![i] = p]
     /\ first' = IF p # promise[i] /\ first = 0 THEN i ELSE first

-----------------------------------------------------------------------------
(* uploadWithSignedUrls and the synchronous part of batchUpload *)

UploadItemOf(k, kind) ==
  [name |-> "file" \o ToString(k), size |-> 10 + k,
   content_type |-> IF k = 1 THEN undefined ELSE "video/mp4",
   url |-> SampleUrl(k, kind)]

\* An index counted from one.
IndexFromOne(k) == k

\* The index uploadWithSignedUrls gives the item at position k (from 1).
IndexOf(k) == k - 1

\* An item whose transport goes to the signed URL as it was given.
AxiosUploadItemOfRawUrl(k, uploadItem) ==
  LET parsedUrl == parseSignedUrl(uploadItem.url)
  IN [index |-> IndexOf(k),
      signedUrl |-> uploadItem.url,
      token |-> parsedUrl.token,
      object_id |-> parsedUrl.object_id,
      metadata |-> [file_name |-> uploadItem.name,
                    size |-> uploadItem.size,
                    content_type |-> IF uploadItem.content_type = undefined
                                     THEN "application/octet-stream"
                                     ELSE uploadItem.content_type,
                    kind |-> "video"]]

AxiosUploadItemOf(k, uploadItem) ==
  LET parsedUrl == parseSignedUrl(uploadItem.url)
  IN [index |-> IndexOf(k),
      signedUrl |-> parsedUrl.cleanedUrl,
      token |-> parsedUrl.token,
      object_id |-> parsedUrl.object_id,
      metadata |-> [file_name |-> uploadItem.name,
                    size |-> uploadItem.size,
                    content_type |-> IF uploadItem.content_type = undefined
                                     THEN "application/octet-stream"
                                     ELSE uploadItem.content_type,
                    kind |-> "video"]]

\* A loop that starts the first item only and leaves the others waiting.
LaunchedFirstOnly(n) == [k \in 1..n |-> IF k = 1 THEN "transporting" ELSE "pending"]

\* The phase of each item when the map over the items has run: every
\* executor has run up to its await of the transport request.
Launched(n) == [k \in 1..n |-> "transporting"]

uploadWithSignedUrls(n, kinds, tree) ==
  LET uploadItems == [k \in 1..n |-> UploadItemOf(k, kinds[k])]
  IN /\ call = "idle"
     /\ items' = uploadItems
     /\ on' = tree
     /\ IF \E k \in 1..n : parseSignedUrl(uploadItems[k].url).threw
        THEN /\ call' = "rejected"
             /\ UNCHANGED <<axItems, putReq, patchReq, phase, xfer, commit, promise, calls>>
        ELSE LET ax == [k \in 1..n |-> AxiosUploadItemOf(k, uploadItems[k])]
             IN /\ call' = "running"
                /\ axItems' = ax
                /\ putReq' = [k \in 1..n |->
                                [url |-> ax[k].signedUrl, method |-> "PUT",
                                 headers |-> undefined]]
                /\ patchReq' = [k \in 1..n |-> <<>>]
                /\ phase' = Launched(n)
                /\ xfer' = [k \in 1..n |-> "none"]
                /\ commit' = [k \in 1..n |-> "none"]
                /\ promise' = [k \in 1..n |-> Pending]
                /\ calls' = [k \in 1..n |-> <<>>]
     /\ UNCHANGED <<aux, first, result, events>>

-----------------------------------------------------------------------------
(* axiosUpload: progress events and the end of the transport *)

\* The pairs (loaded, total) up to MaxBytes + 1 whose quotient, multiplied by
\* 100 in double arithmetic, falls just short of the half that
\* 100 * loaded / total is exactly: (23 / 40) * 100 = 57.49999999999999.
ShortOfHalf == {<<23, 40>>, <<41, 40>>}

RoundPercentFloor(loaded, total) == (100 * loaded) \div total

\* Math.round((x / y) * 100) for x >= 0, y > 0: the nearest whole number, a
\* half going up, computed on the double (x / y) * 100.
RoundPercent(loaded, total) ==
  IF <<loaded, total>> \in ShortOfHalf
  THEN (100 * loaded) \div total
  ELSE (200 * loaded + total) \div (2 * total)

\* progressEvent.total ? Math.round(...) : 0, total being optional.
ProgressValue(ev) ==
  IF "total" \in DOMAIN ev /\ ev.total # 0
  THEN RoundPercent(ev.loaded, ev.total)
  ELSE 0

\* The progress events of a transport in this specification.
ProgressEvents == {[loaded |-> 1, total |-> 3]}

onUploadProgress(i, ev) ==
  /\ call \in {"running", "resolved"}
  /\ i \in Files
  /\ phase[i] = "transporting"
  /\ events < MaxEvents
  /\ events' = events + 1
  /\ Fire(i, "onProgress", [value |-> ProgressValue(ev)])
  /\ UNCHANGED <<aux, call, on, items, axItems, putReq, patchReq, phase, xfer, commit, result>>

\* error.message || "Upload failed"
FailedMessage(message) == IF message = "" THEN "Upload failed" ELSE message

\* error.message || "Axios Upload failed", the message of the value axiosUpload
\* returns from its catch.
ReturnedMessage(message) ==
  IF message = "" THEN "Axios Upload failed" ELSE message

\* The error.message of a failed transport in this specification.
ErrorMessages == {"Network Error"}

\* A commit request built from one variable shared by the items: whichever
\* item asks, the request is about the last one.
CommitRequestShared(item) ==
  LET last == IF axItems = <<>> THEN item ELSE axItems[Len(axItems)]
  IN [url |-> [base |-> "baseUrl", path |-> <<"v1", "storage", last.object_id>>],
      method |-> "PATCH",
      headers |-> [xZapdosToken |-> last.token, contentType |-> "application/json"],
      body |-> [metadata |-> last.metadata, create_indexing_job |-> TRUE]]

\* The metadata-commit request batchUpload issues for an item.
CommitRequest(item) ==
  [url |-> [base |-> "baseUrl", path |-> <<"v1", "storage", item.object_id>>],
   method |-> "PATCH",
   headers |-> [xZapdosToken |-> item.token, contentType |-> "application/json"],
   body |-> [metadata |-> item.metadata, create_indexing_job |-> TRUE]]

\* A commit request that is sent a second time.
AfterUploadTwice(i, outcome) ==
  /\ phase' = [phase EXCEPT ![i] = "committing"]
  /\ patchReq' = [patchReq EXCEPT ![i] = @ \o <<CommitRequest(axItems[i]),
                                                 CommitRequest(axItems[i])>>]

\* What batchUpload does once axiosUpload has returned: the phase the file
\* enters and the requests it has issued by then.
AfterUpload(i, outcome) ==
  /\ phase' = [phase EXCEPT ![i] = "committing"]
  /\ patchReq' = [patchReq EXCEPT ![i] = Append(@, CommitRequest(axItems[i]))]

\* The transport of file i succeeds: onStored, then the commit request.
TransportOk(i) ==
  /\ call \in {"running", "resolved"}
  /\ i \in Files
  /\ phase[i] = "transporting"
  /\ xfer' = [xfer EXCEPT ![i] = "ok"]
  /\ Fire(i, "onStored", EmptyArg)
  /\ AfterUpload(i, "ok")
  /\ UNCHANGED <<aux, call, on, items, axItems, putReq, commit, result, events>>

\* The transport of file i fails: onFailed, and batchUpload goes on.
TransportFail(i, message) ==
  /\ call \in {"running", "resolved"}
  /\ i \in Files
  /\ phase[i] = "transporting"
  /\ xfer' = [xfer EXCEPT ![i] = "failed"]
  /\ Fire(i, "onFailed", [message |-> FailedMessage(message)])
  /\ AfterUpload(i, "failed")
  /\ UNCHANGED <<aux, call, on, items, axItems, putReq, commit, result, events>>

-----------------------------------------------------------------------------
(* updateObjectMetadata: the response to the commit request *)

\* A catch that reports the rejected fetch as the file's failure.
OnCommitRejectFail(i) == Fire(i, "onFailed", [message |-> "Metadata update failed"])

\* What the anonymous async function of batchUpload does about a rejected
\* fetch: nothing, it has no catch.
OnCommitReject(i) == UNCHANGED <<calls, promise, first>>

\* fetch rejects: the anonymous async function rejects, nothing handles it.
CommitReject(i) ==
  /\ i \in Files
  /\ phase[i] = "committing"
  /\ phase' = [phase EXCEPT ![i] = "closed"]
  /\ commit' = [commit EXCEPT ![i] = "rejected"]
  /\ OnCommitReject(i)
  /\ UNCHANGED <<aux, call, on, items, axItems, putReq, patchReq, xfer, result, events>>

\* The response has no body: updateObjectMetadata returns undefined.
CommitNoBody(i) ==
  /\ i \in Files
  /\ phase[i] = "committing"
  /\ phase' = [phase EXCEPT ![i] = "closed"]
  /\ commit' = [commit EXCEPT ![i] = "nobody"]
  /\ UNCHANGED <<aux, call, on, items, axItems, putReq, patchReq, xfer, promise,
                 calls, first, result, events>>

\* The response has a body: handleStream starts on its records.
CommitStream(i) ==
  /\ i \in Files
  /\ phase[i] = "committing"
  /\ phase' = [phase EXCEPT ![i] = "streaming"]
  /\ commit' = [commit EXCEPT ![i] = "stream"]
  /\ UNCHANGED <<aux, call, on, items, axItems, putReq, patchReq, xfer, promise,
                 calls, first, result, events>>

-----------------------------------------------------------------------------
(* handleStream *)

DataTypes == {"metadata_updated", "indexing_started", "indexing_completed",
              "indexing_failed", "transcription"}

\* The records the service sends on the stream of a commit request: about the
\* object of the request, or an error, or JSON of another shape.
Records(req) ==
  {[data |-> [type |-> t, object_id |-> req.url.path[3], job_id |-> "job1"]] : t \in DataTypes}
    \cup {[error |-> [message |-> "boom"]], [other |-> 1]}

\* The records of all the streams of a batch.
AllRecords ==
  UNION {Records(CommitRequest([object_id |-> ObjIdOf(k), token |-> TokenOf(k),
                                metadata |-> <<>>])) : k \in 1..MaxFiles}

\* A relay without the test of msg.error.
IsErrorNever(msg) == FALSE

IsError(msg) == "error" \in DOMAIN msg
HasData(msg) == "data" \in DOMAIN msg

\* The branches of indexing_failed and indexing_completed exchanged.
DispatchSwapped(msg) ==
  LET d == msg.data
      both == [object_id |-> d.object_id, job_id |-> d.job_id]
  IN CASE d.type = "metadata_updated"   -> [h |-> "onCompleted", arg |-> [object_id |-> d.object_id]]
       [] d.type = "indexing_started"   -> [h |-> "job.onIndexingStarted", arg |-> both]
       [] d.type = "indexing_failed"    -> [h |-> "job.onIndexingCompleted", arg |-> both]
       [] d.type = "indexing_completed" -> [h |-> "job.onIndexingFailed", arg |-> both]
       [] OTHER                         -> [h |-> "none", arg |-> EmptyArg]

\* The handler handleStream calls for a record, and its argument.
Dispatch(msg) ==
  LET d == msg.data
      both == [object_id |-> d.object_id, job_id |-> d.job_id]
  IN CASE d.type = "metadata_updated"   -> [h |-> "onCompleted", arg |-> [object_id |-> d.object_id]]
       [] d.type = "indexing_started"   -> [h |-> "job.onIndexingStarted", arg |-> both]
       [] d.type = "indexing_failed"    -> [h |-> "job.onIndexingFailed", arg |-> both]
       [] d.type = "indexing_completed" -> [h |-> "job.onIndexingCompleted", arg |-> both]
       [] OTHER                         -> [h |-> "none", arg |-> EmptyArg]

\* One turn of the for-await loop of handleStream.
StreamRecord(i, msg) ==
  /\ i \in Files
  /\ phase[i] = "streaming"
  /\ msg \in Records(patchReq[i][Len(patchReq[i])])
  /\ events < MaxEvents
  /\ events' = events + 1
  /\ IF IsError(msg)
     THEN UNCHANGED <<phase, calls, promise, first>>
     ELSE IF ~HasData(msg)
     THEN \* msg.data.type throws: handleStream rejects, nothing handles it
          /\ phase' = [phase EXCEPT ![i] = "closed"]
          /\ UNCHANGED <<calls, promise, first>>
     ELSE /\ Fire(i, Dispatch(msg).h, Dispatch(msg).arg)
          /\ UNCHANGED phase
  /\ UNCHANGED <<aux, call, on, items, axItems, putReq, patchReq, xfer, commit, result>>

\* The stream ends (or breaks): handleStream is over.
StreamEnd(i) ==
  /\ i \in Files
  /\ phase[i] = "streaming"
  /\ phase' = [phase EXCEPT ![i] = "closed"]
  /\ UNCHANGED <<aux, call, on, items, axItems, putReq, patchReq, xfer, commit, promise,
                 calls, first, result, events>>

-----------------------------------------------------------------------------
(* batchUpload after its await of Promise.all *)

\* Fulfilled as soon as one promise is, with the values there are by then.
PromiseAny(ps) ==
  [fulfilled |-> ps = <<>> \/ \E k \in 1..Len(ps) : ps[k] # Pending,
   values |-> SelectSeq(ps, LAMBDA p : p # Pending)]

\* Promise.all: fulfilled once every promise is, with their values in the
\* order of the promises.
PromiseAll(ps) ==
  [fulfilled |-> \A k \in 1..Len(ps) : ps[k] # Pending,
   values |-> [k \in 1..Len(ps) |-> ps[k]]]

\* (a?.data || a.error).file_index
SortKey(a) == a.value.file_index

RECURSIVE Insert(_, _)
Insert(sorted, a) ==
  IF sorted = <<>> THEN <<a>>
  ELSE IF SortKey(a) - SortKey(Head(sorted)) < 0 THEN <<a>> \o sorted
  ELSE <<Head(sorted)>> \o Insert(Tail(sorted), a)

RECURSIVE toSortedDescending(_)
\* The sort with its comparator turned round (b - a).
toSortedDescending(results) ==
  IF results = <<>> THEN <<>>
  ELSE LET rest == toSortedDescending(Tail(results))
           before == SelectSeq(rest, LAMBDA b : SortKey(b) > SortKey(Head(results)))
           after == SelectSeq(rest, LAMBDA b : SortKey(b) <= SortKey(Head(results)))
       IN before \o <<Head(results)>> \o after

RECURSIVE toSorted(_)
\* Array.prototype.toSorted with the comparator of batchUpload: stable.
toSorted(results) ==
  IF results = <<>> THEN <<>>
  ELSE Insert(toSorted(SubSeq(results, 1, Len(results) - 1)), results[Len(results)])

\* A return that ends the relay of every stream still open.
ResolveBatchClosesStreams ==
  /\ call = "running"
  /\ PromiseAll(promise).fulfilled
  /\ call' = "resolved"
  /\ result' = toSorted(PromiseAll(promise).values)
  /\ phase' = [k \in Files |-> "closed"]
  /\ UNCHANGED <<aux, on, items, axItems, putReq, patchReq, xfer, commit, promise,
                 calls, first, events>>

\* The continuation of the await in batchUpload: sort and return.
ResolveBatch ==
  /\ call = "running"
  /\ PromiseAll(promise).fulfilled
  /\ call' = "resolved"
  /\ result' = toSorted(PromiseAll(promise).values)
  /\ UNCHANGED <<aux, on, items, axItems, putReq, patchReq, phase, xfer, commit, promise,
                 calls, first, events>>

-----------------------------------------------------------------------------

\* The pipeline before the call.
PipelineIdle ==
  /\ call = "idle"
  /\ on = NoTree
  /\ items = <<>>
  /\ axItems = <<>>
  /\ putReq = <<>>
  /\ patchReq = <<>>
  /\ phase = <<>>
  /\ xfer = <<>>
  /\ commit = <<>>
  /\ promise = <<>>
  /\ calls = <<>>
  /\ first = 0
  /\ result = <<>>
  /\ events = 0

\* No function is run on its own.
NoRun == [state |-> "idle"]

Init ==
  /\ PipelineIdle /\ consumer = NoRun /\ download = NoRun
  /\ transform = NoRun
  /\ applied = NoRun
  /\ relay = NoRun
  /\ decoder = NoRun
  /\ resolver = NoRun

Next ==
  \/ \E n \in 0..MaxFiles : \E kinds \in [1..n -> UrlKinds] : \E tree \in Trees :
       uploadWithSignedUrls(n, kinds, tree)
  \/ \E i \in 1..MaxFiles : \E ev \in ProgressEvents : onUploadProgress(i, ev)
  \/ \E i \in 1..MaxFiles : TransportOk(i)
  \/ \E i \in 1..MaxFiles : \E m \in ErrorMessages : TransportFail(i, m)
  \/ \E i \in 1..MaxFiles : CommitReject(i)
  \/ \E i \in 1..MaxFiles : CommitNoBody(i)
  \/ \E i \in 1..MaxFiles : CommitStream(i)
  \/ \E i \in 1..MaxFiles : \E msg \in AllRecords : StreamRecord(i, msg)
  \/ \E i \in 1..MaxFiles : StreamEnd(i)
  \/ ResolveBatch

Spec == Init /\ [][Next]_vars

-----------------------------------------------------------------------------
(* handleStream on its own: one run over a whole stream *)

\* Longest stream relayed.
MaxStream == 3

RECURSIVE SeqsUpTo(_, _)
\* The sequences over S of length at most n.
SeqsUpTo(S, n) ==
  IF n = 0 THEN {<<>>}
  ELSE LET shorter == SeqsUpTo(S, n - 1)
       IN shorter \cup {Append(q, x) : q \in shorter, x \in S}

\* The item batchUpload made of the file at position k, its URL well-formed.
SampleItem(k) == AxiosUploadItemOf(k, UploadItemOf(k, "good"))

\* The trees handleStream is run with: those of Trees and one without job.
RelayTrees == Trees \cup {Tree(TopHandlers)}

\* One turn of the for-await loop of handleStream(stream, minimumCallbacks):
\* the caller's handlers called, the value handed to resolve, and whether
\* the turn threw.
handleStreamTurn(tree, fileIndex, msg) ==
  IF IsError(msg)
  THEN [calls |-> <<>>, resolve |-> NoResolve, threw |-> FALSE]
  ELSE IF ~HasData(msg)
  THEN [calls |-> <<>>, resolve |-> NoResolve, threw |-> TRUE]
  ELSE LET r == prepareMinimalCallbacks(tree, fileIndex, Dispatch(msg).h, Dispatch(msg).arg)
       IN [calls |-> r.calls, resolve |-> r.resolve, threw |-> FALSE]

RelayInit ==
  /\ PipelineIdle /\ consumer = NoRun /\ download = NoRun
  /\ transform = NoRun
  /\ applied = NoRun
  /\ \E t \in RelayTrees : \E k \in 1..MaxFiles :
       \E st \in SeqsUpTo(Records(CommitRequest(SampleItem(k))), MaxStream) :
         relay = [state |-> "running", tree |-> t, item |-> k, stream |-> st,
                  pos |-> 0, log |-> <<>>, promise |-> Pending]
  /\ decoder = NoRun
  /\ resolver = NoRun

\* The loop takes the next record of the stream.
RelayTurn ==
  /\ relay.state = "running"
  /\ relay.pos < Len(relay.stream)
  /\ LET k == relay.pos + 1
         t == handleStreamTurn(relay.tree, SampleItem(relay.item).index, relay.stream[k])
         made == [c \in 1..Len(t.calls) |->
                    [rec |-> k, h |-> t.calls[c].h, arg |-> t.calls[c].arg]]
     IN relay' = [relay EXCEPT !.pos = k,
                               !.log = @ \o made,
                               !.promise = Resolve(@, t.resolve),
                               !.state = IF t.threw THEN "threw" ELSE @]
  /\ UNCHANGED <<pipe, consumer, download, transform, applied, decoder, resolver>>

\* The stream is exhausted: the loop ends and handleStream returns.
RelayEnd ==
  /\ relay.state = "running"
  /\ relay.pos = Len(relay.stream)
  /\ relay' = [relay EXCEPT !.state = "ended"]
  /\ UNCHANGED <<pipe, consumer, download, transform, applied, decoder, resolver>>

RelayNext ==
  \/ RelayTurn
  \/ RelayEnd

RelaySpec == RelayInit /\ [][RelayNext]_vars

-----------------------------------------------------------------------------
(* parseNDJSONStream on its own *)

\* Most lines in a text, and most places a text is cut at into chunks.
MaxLines == 3
MaxCuts == 2

\* The bytes of the texts: ASCII digits, a letter, the double quote (q), the
\* space, the line feed, and the two bytes C3 A9 of one two-byte character.
LF == "LF"
Quote == "q"
Digits == {"1", "2"}
EAcute == "e-acute"
Replacement == "U+FFFD"

\* The lines of the texts: two numbers, a string with the two-byte character,
\* a line that is not JSON, a line of white space, an empty line.
SampleLines ==
  {<<"1">>, <<"1", "2">>, <<Quote, "C3", "A9", Quote>>, <<"x">>, <<" ">>, <<>>}

RECURSIVE DecodeBytes(_, _)
\* decoder.decode(bytes, { stream: true }) of a TextDecoder holding the bytes
\* `pending` of an unfinished character: the text decoded and the bytes held.
DecodeBytes(pending, bytes) ==
  IF bytes = <<>> THEN [text |-> <<>>, pending |-> pending]
  ELSE LET b == Head(bytes)
       IN IF pending # <<>>
          THEN IF b = "A9"
               THEN LET r == DecodeBytes(<<>>, Tail(bytes))
                    IN [text |-> <<EAcute>> \o r.text, pending |-> r.pending]
               ELSE LET r == DecodeBytes(<<>>, bytes)
                    IN [text |-> <<Replacement>> \o r.text, pending |-> r.pending]
          ELSE IF b = "C3" THEN DecodeBytes(<<b>>, Tail(bytes))
          ELSE LET r == DecodeBytes(<<>>, Tail(bytes))
               IN [text |-> <<IF b = "A9" THEN Replacement ELSE b>> \o r.text,
                   pending |-> r.pending]

RECURSIVE Split(_)
\* text.split("\n"): the pieces between the line feeds, one at least.
Split(text) ==
  IF \A k \in 1..Len(text) : text[k] # LF THEN <<text>>
  ELSE LET k == CHOOSE j \in 1..Len(text) :
                  text[j] = LF /\ \A m \in 1..(j - 1) : text[m] # LF
       IN <<SubSeq(text, 1, k - 1)>> \o Split(SubSeq(text, k + 1, Len(text)))

RECURSIVE Trim(_)
\* line.trim()
Trim(line) ==
  IF line = <<>> THEN <<>>
  ELSE IF Head(line) = " " THEN Trim(Tail(line))
  ELSE IF line[Len(line)] = " " THEN Trim(SubSeq(line, 1, Len(line) - 1))
  ELSE line

\* Whether JSON.parse(line) returns: the line is, between white space, a
\* number or a string.
JSONValid(line) ==
  LET t == Trim(line)
  IN \/ t # <<>> /\ \A k \in 1..Len(t) : t[k] \in Digits
     \/ /\ Len(t) >= 2
        /\ t[1] = Quote /\ t[Len(t)] = Quote
        /\ \A k \in 2..(Len(t) - 1) : t[k] # Quote

\* The value JSON.parse(line) returns, written as its JSON text.
JSONParse(line) == Trim(line)

\* A line parsed with no catch around JSON.parse.
TryParseNoCatch(line) ==
  IF Trim(line) = <<>> THEN [yields |-> <<>>, threw |-> FALSE]
  ELSE IF JSONValid(line) THEN [yields |-> <<JSONParse(line)>>, threw |-> FALSE]
  ELSE [yields |-> <<>>, threw |-> TRUE]

\* if (line.trim()) { try { yield JSON.parse(line) } catch { console.warn } }
TryParse(line) ==
  IF Trim(line) = <<>> THEN [yields |-> <<>>, threw |-> FALSE]
  ELSE IF JSONValid(line) THEN [yields |-> <<JSONParse(line)>>, threw |-> FALSE]
  ELSE [yields |-> <<>>, threw |-> FALSE]

RECURSIVE ParseLines(_)
\* The for loop over the complete lines: it stops at the line that throws.
ParseLines(lines) ==
  IF lines = <<>> THEN [yields |-> <<>>, threw |-> FALSE]
  ELSE LET r == TryParse(Head(lines))
       IN IF r.threw THEN r
          ELSE LET rest == ParseLines(Tail(lines))
               IN [yields |-> r.yields \o rest.yields, threw |-> rest.threw]

\* The split that keeps nothing back: every piece is taken for a line.
SplitChunkNoCarry(buffer, text) ==
  [lines |-> Split(buffer \o text), buffer |-> <<>>]

\* buffer += text; lines = buffer.split("\n"); buffer = lines.pop()
SplitChunk(buffer, text) ==
  LET pieces == Split(buffer \o text)
  IN [lines |-> SubSeq(pieces, 1, Len(pieces) - 1), buffer |-> pieces[Len(pieces)]]

\* The state of the generator before its first read.
DecoderStart ==
  [state |-> "reading", pending |-> <<>>, buffer |-> <<>>, out |-> <<>>]

\* One turn of the while loop for a chunk the reader returned.
ReadTurn(st, chunk) ==
  LET d == DecodeBytes(st.pending, chunk)
      sp == SplitChunk(st.buffer, d.text)
      r == ParseLines(sp.lines)
  IN [state |-> IF r.threw THEN "threw" ELSE "reading",
      pending |-> d.pending, buffer |-> sp.buffer, out |-> st.out \o r.yields]

\* An end of stream that leaves what is in the buffer unparsed.
DoneTurnDropsRest(st) ==
  [state |-> "ended", pending |-> st.pending, buffer |-> st.buffer, out |-> st.out]

\* The reader is done: the loop breaks and the rest of the buffer is parsed.
DoneTurn(st) ==
  LET r == TryParse(st.buffer)
  IN [state |-> IF r.threw THEN "threw" ELSE "ended",
      pending |-> st.pending, buffer |-> st.buffer, out |-> st.out \o r.yields]

RECURSIVE RunFrom(_, _)
RunFrom(st, chunks) ==
  IF st.state # "reading" THEN st
  ELSE IF chunks = <<>> THEN DoneTurn(st)
  ELSE RunFrom(ReadTurn(st, Head(chunks)), Tail(chunks))

\* The whole run of parseNDJSONStream over a stream of chunks.
parseNDJSONStream(chunks) == RunFrom(DecoderStart, chunks)

RECURSIVE Join(_, _)
\* The text of the lines, a line feed after each but, if not terminated,
\* the last.
Join(lines, terminated) ==
  IF lines = <<>> THEN <<>>
  ELSE IF Len(lines) = 1 THEN IF terminated THEN lines[1] \o <<LF>> ELSE lines[1]
  ELSE Head(lines) \o <<LF>> \o Join(Tail(lines), terminated)

RECURSIVE CutAt(_, _, _)
\* The chunks of text cut after the offsets of `cuts`, from offset `from` on.
CutAt(text, cuts, from) ==
  IF \A c \in cuts : c <= from THEN <<SubSeq(text, from + 1, Len(text))>>
  ELSE LET c == CHOOSE x \in cuts : x > from /\ \A y \in cuts : y > from => x <= y
       IN <<SubSeq(text, from + 1, c)>> \o CutAt(text, cuts, c)

\* The sets of at most n offsets inside a text of the given length.
CutSets(len, n) == {cs \in SUBSET (1..(len - 1)) : Cardinality(cs) <= n}

DecoderInit ==
  /\ PipelineIdle /\ consumer = NoRun /\ download = NoRun
  /\ transform = NoRun
  /\ applied = NoRun
  /\ relay = NoRun
  /\ resolver = NoRun
  /\ \E ls \in SeqsUpTo(SampleLines, MaxLines) : \E terminated \in BOOLEAN :
       \E cuts \in CutSets(Len(Join(ls, terminated)), MaxCuts) :
         LET text == Join(ls, terminated)
             chunks == IF text = <<>> THEN <<>> ELSE CutAt(text, cuts, 0)
         IN decoder = [state |-> "running", lines |-> ls, terminated |-> terminated,
                       text |-> text, input |-> chunks, chunks |-> chunks,
                       run |-> DecoderStart]

\* reader.read() returns the next chunk.
DecoderRead ==
  /\ decoder.state # "idle"
  /\ decoder.run.state = "reading"
  /\ decoder.chunks # <<>>
  /\ decoder' = [decoder EXCEPT !.chunks = Tail(@),
                                 !.run = ReadTurn(@, Head(decoder.chunks))]
  /\ UNCHANGED <<pipe, consumer, download, transform, applied, relay, resolver>>

\* reader.read() returns done.
DecoderDone ==
  /\ decoder.state # "idle"
  /\ decoder.run.state = "reading"
  /\ decoder.chunks = <<>>
  /\ decoder' = [decoder EXCEPT !.run = DoneTurn(@)]
  /\ UNCHANGED <<pipe, consumer, download, transform, applied, relay, resolver>>

DecoderNext ==
  \/ DecoderRead
  \/ DecoderDone

DecoderSpec == DecoderInit /\ [][DecoderNext]_vars

-----------------------------------------------------------------------------
(* parseSignedUrl on its own *)

\* Most query parameters of a URL.
MaxQuery == 3

\* The query parameters of the URLs: the two reserved names and one more,
\* each with an empty value or one of two values.
QueryPairs ==
  {[name |-> n, value |-> v] : n \in {ObjIdParam, TokenParam, "sig"}, v \in {"", "a", "b"}}

\* The URL strings given to parseSignedUrl, by what new URL() makes of them.
Urls ==
  {[parseable |-> b, host |-> IF b THEN "store" ELSE "", query |-> q] :
     b \in BOOLEAN, q \in SeqsUpTo(QueryPairs, MaxQuery)}

ResolverInit ==
  /\ PipelineIdle /\ consumer = NoRun /\ download = NoRun
  /\ transform = NoRun
  /\ applied = NoRun
  /\ relay = NoRun
  /\ decoder = NoRun
  /\ \E u \in Urls : resolver = [state |-> "called", url |-> u]

\* parseSignedUrl calls extractCustomParams, which returns.
ResolverExtract ==
  /\ resolver.state = "called"
  /\ resolver' = [state |-> "extracted", url |-> resolver.url,
                  x |-> extractCustomParams(resolver.url, <<ObjIdParam, TokenParam>>)]
  /\ UNCHANGED <<pipe, consumer, download, transform, applied, relay, decoder>>

\* parseSignedUrl tests the two values and throws or returns.
ResolverCheck ==
  /\ resolver.state = "extracted"
  /\ LET out == parseSignedUrl(resolver.url)
     IN resolver' = [state |-> IF out.threw THEN "threw" ELSE "returned",
                     url |-> resolver.url, x |-> resolver.x, out |-> out]
  /\ UNCHANGED <<pipe, consumer, download, transform, applied, relay, decoder>>

ResolverNext ==
  \/ ResolverExtract
  \/ ResolverCheck

ResolverSpec == ResolverInit /\ [][ResolverNext]_vars

-----------------------------------------------------------------------------
(* unextendCallbacks on its own, and the object prepareMinimalCallbacks returns *)

\* Most calls made of the handlers a transform returned.
MaxInvokes == 2

\* The values of JavaScript that matter to the transform: undefined and null,
\* functions, objects (their own enumerable keys) and other values.
Absent == [kind |-> "undefined"]
Null == [kind |-> "null"]
Fn(id) == [kind |-> "function", id |-> id]
Value(v) == [kind |-> "value", value |-> v]
Obj(fields) == [kind |-> "object", fields |-> fields]
\* A key an object does not have.
Missing == [kind |-> "missing"]

\* The objects with, for every key of opts, one of the values opts gives for
\* it, or without the key where that is Missing.
ObjectsOf(opts) ==
  {[k \in {j \in DOMAIN opts : f[j] # Missing} |-> f[k]] :
     f \in {g \in [DOMAIN opts -> UNION {opts[k] : k \in DOMAIN opts}] :
              \A k \in DOMAIN opts : g[k] \in opts[k]}}

\* The job branches of the trees given to the transform.
JobBranches ==
  ObjectsOf([onIndexingStarted |-> {Missing, Fn("job.onIndexingStarted")},
             retries |-> {Missing, Value("3")}])

\* The trees given to the transform: handlers, a job branch (or null in its
\* place) and a leaf that is neither a function nor an object.
SampleTrees ==
  {Absent, Null} \cup
  {Obj(t) : t \in ObjectsOf(
     [onStored |-> {Missing, Fn("onStored")},
      onCompleted |-> {Missing, Fn("onCompleted")},
      label |-> {Missing, Value("s"), Null},
      job |-> {Missing, Null} \cup {Obj(j) : j \in JobBranches}])}

\* (arg) => value({ ...arg, ...ext })
Wrapper(value, ext) == [kind |-> "function", id |-> "wrapper", of |-> value, ext |-> ext]

RECURSIVE unextendFields(_, _)
\* The loop body of unextendCallbacks for an object value copied as it is.
unextendValueShallow(value, ext) ==
  IF value.kind = "function" THEN Wrapper(value, ext) ELSE value

\* The loop body of unextendCallbacks: what result[key] becomes for value.
unextendValue(value, ext) ==
  IF value.kind = "function" THEN Wrapper(value, ext)
  ELSE IF value.kind = "object" THEN Obj(unextendFields(value.fields, ext))
  ELSE value

\* for (const key in callbacks) result[key] = ...
unextendFields(fields, ext) ==
  [key \in DOMAIN fields |-> unextendValue(fields[key], ext)]

\* A transform that calls a handler of the tree while it wraps it.
unextendRunEager(callbacks, ext) ==
  IF callbacks.kind \in {"undefined", "null"}
  THEN [result |-> Absent, callbacks |-> callbacks, invoked |-> <<>>]
  ELSE LET fns == {k \in DOMAIN callbacks.fields : callbacks.fields[k].kind = "function"}
       IN [result |-> Obj(unextendFields(callbacks.fields, ext)),
           callbacks |-> callbacks,
           invoked |-> IF fns = {} THEN <<>>
                       ELSE <<[h |-> callbacks.fields[CHOOSE k \in fns : TRUE].id,
                               arg |-> ext]>>]

\* One call unextendCallbacks(callbacks, ext): the value returned, the
\* object given as it is after the call, and the handlers called meanwhile.
unextendRun(callbacks, ext) ==
  IF callbacks.kind \in {"undefined", "null"}
  THEN [result |-> Absent, callbacks |-> callbacks, invoked |-> <<>>]
  ELSE [result |-> Obj(unextendFields(callbacks.fields, ext)),
        callbacks |-> callbacks,
        invoked |-> <<>>]

\* onCompleted(args) / onFailed(args) of the object prepareMinimalCallbacks
\* returns, closed over the handler of that key of minimalCallbacks.
Settler(arm, minimal, key, ext) ==
  [kind |-> "function", id |-> "settler", arm |-> arm, ext |-> ext,
   of |-> IF minimal.kind = "object" /\ key \in DOMAIN minimal.fields
          THEN minimal.fields[key] ELSE Missing]

\* One call prepareMinimalCallbacks(callbacks, fileIndex, resolve), as
\* unextendRun.
prepareRun(callbacks, ext) ==
  IF callbacks.kind \in {"undefined", "null"}
  THEN [result |-> Absent, callbacks |-> callbacks, invoked |-> <<>>]
  ELSE LET u == unextendRun(callbacks, ext)
           keys == DOMAIN u.result.fields \cup {"onCompleted", "onFailed"}
       IN [result |-> Obj([k \in keys |->
                             IF k = "onCompleted" THEN Settler("data", u.result, k, ext)
                             ELSE IF k = "onFailed" THEN Settler("error", u.result, k, ext)
                             ELSE u.result.fields[k]]),
           callbacks |-> u.callbacks,
           invoked |-> u.invoked]

RECURSIVE CallFn(_, _)
\* The calls of the caller's handlers that calling the function fn with arg
\* makes.
CallFn(fn, arg) ==
  IF fn.id = "wrapper" THEN CallFn(fn.of, Merge(arg, fn.ext))
  ELSE IF fn.id = "settler"
  THEN IF fn.of.kind = "function" THEN CallFn(fn.of, Merge(arg, fn.ext)) ELSE <<>>
  ELSE <<[h |-> fn.id, arg |-> arg]>>

\* The value at a path of keys of a tree, Missing where there is none.
LeafAt(tree, path) ==
  IF tree.kind # "object" \/ path[1] \notin DOMAIN tree.fields THEN Missing
  ELSE IF Len(path) = 1 THEN tree.fields[path[1]]
  ELSE LET sub == tree.fields[path[1]]
       IN IF sub.kind # "object" \/ path[2] \notin DOMAIN sub.fields THEN Missing
          ELSE sub.fields[path[2]]

\* The paths of the trees.
Paths ==
  {<<k>> : k \in {"onStored", "onCompleted", "onFailed", "label", "job"}}
    \cup {<<"job", k>> : k \in {"onIndexingStarted", "retries"}}

\* The extension objects and the arguments of the calls.
Exts == {[file_index |-> 1], EmptyArg}
Args == {EmptyArg, [object_id |-> "o"], [object_id |-> "o", file_index |-> 1],
         [file_index |-> 7]}

TransformInit ==
  /\ PipelineIdle /\ consumer = NoRun /\ download = NoRun
  /\ relay = NoRun
  /\ decoder = NoRun
  /\ resolver = NoRun
  /\ applied = NoRun
  /\ \E c \in SampleTrees : \E e \in Exts :
       \E via \in {"unextendCallbacks", "prepareMinimalCallbacks"} :
         /\ via = "prepareMinimalCallbacks" => e # EmptyArg
         /\ transform = [state |-> "given", via |-> via, given |-> c, callbacks |-> c,
                         ext |-> e, log |-> <<>>]

\* The transform is called and returns.
TransformCall ==
  /\ transform.state = "given"
  /\ LET run == IF transform.via = "unextendCallbacks"
                THEN unextendRun(transform.callbacks, transform.ext)
                ELSE prepareRun(transform.callbacks, transform.ext)
     IN transform' = [state |-> "returned", via |-> transform.via,
                      given |-> transform.given, callbacks |-> run.callbacks,
                      ext |-> transform.ext, result |-> run.result,
                      invoked |-> run.invoked, log |-> <<>>]
  /\ UNCHANGED <<pipe, consumer, download, relay, decoder, resolver, applied>>

\* A function of the returned tree is called with an argument.
TransformInvoke(path, arg) ==
  /\ transform.state = "returned"
  /\ Len(transform.log) < MaxInvokes
  /\ LeafAt(transform.result, path).kind = "function"
  /\ transform' = [transform EXCEPT !.log = Append(@,
                      [path |-> path, arg |-> arg,
                       calls |-> CallFn(LeafAt(transform.result, path), arg)])]
  /\ UNCHANGED <<pipe, consumer, download, relay, decoder, resolver, applied>>

TransformNext ==
  \/ TransformCall
  \/ \E path \in Paths : \E arg \in Args : TransformInvoke(path, arg)

TransformSpec == TransformInit /\ [][TransformNext]_vars

-----------------------------------------------------------------------------
(* The progress callback, the catch of axiosUpload and createClient, each on
   its own: one call, its argument drawn from a bounded set, and what the call
   returns or throws. *)

\* The largest byte count of a progress event.
MaxBytes == 40

\* The progress events axios may report: loaded, and total when it is known.
AxiosProgressEvents ==
  [loaded : 0..MaxBytes, total : 0..MaxBytes] \cup [loaded : 0..MaxBytes]

\* The callback trees a call is made with.
CallTrees == {NoTree, Tree(AllHandlers), Tree({"onStored"})}

\* The onUploadProgress function axiosUpload hands to axios.
progressCallback(tree, fileIndex, ev) ==
  [threw |-> FALSE,
   calls |-> prepareMinimalCallbacks(tree, fileIndex, "onProgress",
                                     [value |-> ProgressValue(ev)]).calls]

\* The errors a transport is rejected with: error.message, and the body of
\* the response when the storage endpoint answered.
AxiosErrors ==
  [message : {"", "Network Error", "Request failed with status code 403"},
   response : {Absent, [kind |-> "response", msg |-> "quota exceeded"]}]

\* The catch of axiosUpload.
axiosUploadCatch(tree, fileIndex, error) ==
  LET r == prepareMinimalCallbacks(tree, fileIndex, "onFailed",
                                   [message |-> FailedMessage(error.message)])
  IN [threw |-> FALSE, calls |-> r.calls, resolve |-> r.resolve,
      returned |-> [error |-> [message |-> ReturnedMessage(error.message)]]]

\* A base URL is the sequence of its pieces.
Https == <<"https:", "/", "/">>
Http == <<"http:", "/", "/">>
DefaultBaseUrl == Https \o <<"api.zapdoslabs.com">>

RECURSIVE StripTrailingSlashes(_)
\* text.replace(/\/+$/, "")
StripTrailingSlashes(text) ==
  IF text # <<>> /\ text[Len(text)] = "/"
  THEN StripTrailingSlashes(SubSeq(text, 1, Len(text) - 1))
  ELSE text

StartsWith(text, prefix) ==
  /\ Len(text) >= Len(prefix)
  /\ SubSeq(text, 1, Len(prefix)) = prefix

\* opts.baseUrl?.replace(/\/+$/, "") || "https://api.zapdoslabs.com"
BaseUrlOf(opts) ==
  IF opts.baseUrl = Absent THEN DefaultBaseUrl
  ELSE LET stripped == StripTrailingSlashes(opts.baseUrl.text)
       IN IF stripped = <<>> THEN DefaultBaseUrl ELSE stripped

\* baseUrl.replace(from, to) + "/v1/ws", from being the prefix of baseUrl.
WsBaseUrlOf(baseUrl, from, to) ==
  <<to>> \o SubSeq(baseUrl, 2, Len(baseUrl)) \o <<"/", "v1", "/", "ws">>

Threw(message) == [threw |-> TRUE, message |-> message]

\* The constructor of ZapdosBaseClient.
baseConstructor(opts) ==
  IF opts = Absent
  THEN Threw("Cannot read properties of undefined (reading 'baseUrl')")
  ELSE LET baseUrl == BaseUrlOf(opts)
       IN IF StartsWith(baseUrl, Https)
          THEN [threw |-> FALSE, baseUrl |-> baseUrl,
                wsBaseUrl |-> WsBaseUrlOf(baseUrl, "https:", "wss:")]
          ELSE IF StartsWith(baseUrl, Http)
          THEN [threw |-> FALSE, baseUrl |-> baseUrl,
                wsBaseUrl |-> WsBaseUrlOf(baseUrl, "http:", "ws:")]
          ELSE Threw("baseUrl must start with https:// or http://")

createClientKeyFirst(options) ==
  IF options # Absent /\ options.apiKey \in {undefined, ""}
  THEN Threw("Missing API key")
  ELSE LET base == baseConstructor(options)
       IN IF base.threw THEN base
          ELSE [threw |-> FALSE,
                client |-> [environment |-> "backend", apiKey |-> options.apiKey,
                            baseUrl |-> base.baseUrl,
                            wsBaseUrl |-> base.wsBaseUrl]]

\* createClient: new BackendZapdosClient(options), whose constructor runs
\* that of the base class first.
createClient(options) ==
  LET base == baseConstructor(options)
  IN IF base.threw THEN base
     ELSE IF options = Absent THEN Threw("Missing backend client options")
     ELSE IF options.apiKey \in {undefined, ""} THEN Threw("Missing API key")
     ELSE [threw |-> FALSE,
           client |-> [environment |-> "backend", apiKey |-> options.apiKey,
                       baseUrl |-> base.baseUrl,
                       wsBaseUrl |-> base.wsBaseUrl]]

\* The options createClient is called with.
ClientOptions ==
  {Absent} \cup
  [kind : {"object"},
   apiKey : {undefined, "", "test-api-key-123"},
   baseUrl : {Absent} \cup
     [kind : {"string"},
      text : {<<>>, Https \o <<"api.zapdos.test">>,
              Https \o <<"api.zapdos.test", "/">>,
              Https \o <<"api.zapdos.test", "/", "/">>, Http \o <<"localhost">>,
              <<"ftp:", "/", "/", "api.zapdos.test">>, <<"api.zapdos.test">>,
              Https}]]

\* What getUploadUrls comes to: axios rejects, or the body of the response,
\* with an error and no data or with a list of signed URLs.
UploadUrlsResults ==
  {[kind |-> "rejected", message |-> "Network Error"],
   [kind |-> "body", data |-> <<>>, hasData |-> FALSE]}
    \cup {[kind |-> "body", data |-> kinds, hasData |-> TRUE] :
            kinds \in SeqsUpTo({"good", "noToken"}, MaxFiles)}

\* The URL the item at position k gets: getSignedUrlsResult.data[index],
\* undefined past the end of the list.
SignedUrlAt(data, k) ==
  IF k \in DOMAIN data THEN SampleUrl(k, data[k]) ELSE SampleUrl(k, "unparseable")

\* The promise uploadWithSignedUrls returns for the items: rejected when
\* parseSignedUrl throws for one of them, else that of batchUpload.
uploadWithSignedUrlsPromise(urls) ==
  IF \E k \in DOMAIN urls : parseSignedUrl(urls[k]).threw
  THEN [settled |-> "rejected", value |-> [message |-> "Malformed signed url"]]
  ELSE [settled |-> "fulfilled", value |-> [kind |-> "results", of |-> Len(urls)]]

\* The value of the catch of uploadBatch.
UploadError(message) ==
  [settled |-> "fulfilled",
   value |-> [kind |-> "error", error |-> [message |-> FailedMessage(message)]]]

\* uploadBatch: what its promise settles with. The promise of
\* uploadWithSignedUrls is returned from inside the try, not awaited there.
uploadBatch(filePaths, urlsResult) ==
  IF urlsResult.kind = "rejected" THEN UploadError(urlsResult.message)
  ELSE IF ~urlsResult.hasData \/ urlsResult.data = <<>>
  THEN UploadError("No signed URLs returned from server")
  ELSE IF \E k \in DOMAIN filePaths : filePaths[k] = "unreadable"
  THEN UploadError("ENOENT: no such file or directory")
  ELSE uploadWithSignedUrlsPromise(
         [k \in DOMAIN filePaths |-> SignedUrlAt(urlsResult.data, k)])

CallInit ==
  /\ PipelineIdle /\ consumer = NoRun /\ download = NoRun /\ transform = NoRun
  /\ relay = NoRun /\ decoder = NoRun /\ resolver = NoRun
  /\ \/ \E tree \in CallTrees : \E ev \in AxiosProgressEvents :
          applied = [state |-> "called", fn |-> "onUploadProgress",
                     tree |-> tree, fileIndex |-> 1, arg |-> ev]
     \/ \E tree \in CallTrees : \E error \in AxiosErrors :
          applied = [state |-> "called", fn |-> "catch",
                     tree |-> tree, fileIndex |-> 1, arg |-> error]
     \/ \E options \in ClientOptions :
          applied = [state |-> "called", fn |-> "createClient",
                     tree |-> NoTree, fileIndex |-> 0, arg |-> options]
     \/ \E filePaths \in SeqsUpTo({"readable", "unreadable"}, MaxFiles) :
          \E urlsResult \in UploadUrlsResults :
            applied = [state |-> "called", fn |-> "uploadBatch",
                       tree |-> NoTree, fileIndex |-> 0,
                       arg |-> [filePaths |-> filePaths, urlsResult |-> urlsResult]]

Returned(out) ==
  /\ applied' = [state |-> "returned", fn |-> applied.fn, tree |-> applied.tree,
                 fileIndex |-> applied.fileIndex, arg |-> applied.arg,
                 out |-> out]
  /\ UNCHANGED <<pipe, consumer, download, relay, decoder, resolver, transform>>

\* axios reports progress.
CallProgress ==
  /\ applied.state = "called" /\ applied.fn = "onUploadProgress"
  /\ Returned(progressCallback(applied.tree, applied.fileIndex, applied.arg))

\* axios rejects the transport.
CallCatch ==
  /\ applied.state = "called" /\ applied.fn = "catch"
  /\ Returned(axiosUploadCatch(applied.tree, applied.fileIndex, applied.arg))

CallCreateClient ==
  /\ applied.state = "called" /\ applied.fn = "createClient"
  /\ Returned(createClient(applied.arg))

CallUploadBatch ==
  /\ applied.state = "called" /\ applied.fn = "uploadBatch"
  /\ Returned(uploadBatch(applied.arg.filePaths, applied.arg.urlsResult))

CallNext == CallProgress \/ CallCatch \/ CallCreateClient \/ CallUploadBatch

CallSpec == CallInit /\ [][CallNext]_vars

-----------------------------------------------------------------------------
(* parseNDJSONStream as the generator it is, under a for-await loop that may
   break: the generator runs only when the loop asks for the next record. *)

\* The chunks of a stream at most.
MaxChunks == 3

RECURSIVE GenAdvance(_)
\* The for loop over the lines of a chunk, from where it stands: up to the
\* next yield, or back to reader.read() when the lines are used up.
GenAdvance(g) ==
  IF g.lines = <<>> THEN [g EXCEPT !.at = "read"]
  ELSE LET r == TryParse(Head(g.lines))
           rest == [g EXCEPT !.lines = Tail(g.lines)]
       IN IF r.yields # <<>>
          THEN [rest EXCEPT !.at = "yield", !.value = r.yields[1]]
          ELSE GenAdvance(rest)

\* reader.read() has returned a chunk.
GenAfterRead(g, chunk) ==
  LET d == DecodeBytes(g.pending, chunk)
      sp == SplitChunk(g.buffer, d.text)
  IN GenAdvance([g EXCEPT !.pending = d.pending, !.buffer = sp.buffer,
                          !.lines = sp.lines])

\* reader.read() has returned done: the parse of what the buffer holds.
GenAfterDone(g) ==
  LET r == TryParse(g.buffer)
  IN IF r.yields # <<>>
     THEN [g EXCEPT !.at = "yield", !.final = TRUE, !.value = r.yields[1]]
     ELSE [g EXCEPT !.at = "done"]

\* next() on the generator suspended at a yield.
GenResume(g) == IF g.final THEN [g EXCEPT !.at = "done"] ELSE GenAdvance(g)

\* A return() that lets the generator run on to the next read.
OnReturnDrains(g) == [g EXCEPT !.at = "read"]

\* return() on the generator suspended at a yield: the yield completes as a
\* return, which no catch takes and no finally follows; the generator is
\* completed and the reader is left as it is.
OnReturn(g) == [g EXCEPT !.at = "done"]

\* The loop after the generator has run: in its body with the record
\* yielded, past its end when the generator is completed, else waiting; a
\* generator that stands at reader.read() has issued one more read.
AfterRun(g) ==
  [consumer EXCEPT
     !.gen = g,
     !.loop = IF g.at = "yield" THEN "body"
              ELSE IF g.at = "done" THEN "after" ELSE "next",
     !.got = IF g.at = "yield" THEN Append(@, g.value) ELSE @,
     !.reads = IF g.at = "read" THEN @ + 1 ELSE @]

ConsumerInit ==
  /\ PipelineIdle /\ download = NoRun /\ transform = NoRun /\ applied = NoRun
  /\ relay = NoRun /\ decoder = NoRun /\ resolver = NoRun
  \* The chunks the reader returns: a line, the start of a line, a JSON line
  \* and a line that is not JSON, the end of a line and two JSON lines. The
  \* generator has not run yet.
  /\ \E chunks \in SeqsUpTo({<<"1", LF>>, <<"1">>, <<"2", LF, "x", LF>>,
                              <<LF, "1", "2", LF, "2", LF>>}, MaxChunks) :
       consumer = [state |-> "looping", input |-> chunks, chunks |-> chunks,
                   gen |-> [at |-> "start", pending |-> <<>>, buffer |-> <<>>,
                           lines |-> <<>>, final |-> FALSE, value |-> <<>>],
                   loop |-> "next", got |-> <<>>,
                   reads |-> 0, broke |-> FALSE]

\* The first next() of the loop: the generator runs up to its first read.
ConsumerStart ==
  /\ consumer.state = "looping"
  /\ consumer.loop = "next" /\ consumer.gen.at = "start"
  /\ consumer' = AfterRun([consumer.gen EXCEPT !.at = "read"])
  /\ UNCHANGED <<pipe, download, relay, decoder, resolver, transform, applied>>

\* The read the generator waits for returns: a chunk, or done.
ConsumerRead ==
  /\ consumer.state = "looping"
  /\ consumer.loop = "next" /\ consumer.gen.at = "read"
  /\ IF consumer.chunks # <<>>
     THEN consumer' = [AfterRun(GenAfterRead(consumer.gen, Head(consumer.chunks)))
                         EXCEPT !.chunks = Tail(consumer.chunks)]
     ELSE consumer' = AfterRun(GenAfterDone(consumer.gen))
  /\ UNCHANGED <<pipe, download, relay, decoder, resolver, transform, applied>>

\* The body of the loop ends normally: next().
ConsumerContinue ==
  /\ consumer.state = "looping"
  /\ consumer.loop = "body"
  /\ consumer' = AfterRun(GenResume(consumer.gen))
  /\ UNCHANGED <<pipe, download, relay, decoder, resolver, transform, applied>>

\* The body of the loop breaks (or throws): the loop calls return() and
\* awaits it.
ConsumerBreak ==
  /\ consumer.state = "looping"
  /\ consumer.loop = "body"
  /\ consumer' = [consumer EXCEPT !.loop = "returning", !.broke = TRUE]
  /\ UNCHANGED <<pipe, download, relay, decoder, resolver, transform, applied>>

\* return() runs in the generator and the loop goes on past its end.
GenReturn ==
  /\ consumer.state = "looping"
  /\ consumer.loop = "returning"
  /\ LET g == OnReturn(consumer.gen)
     IN consumer' = [consumer EXCEPT
                       !.gen = g,
                       !.loop = IF g.at = "done" THEN "after" ELSE @,
                       !.reads = IF g.at = "read" THEN @ + 1 ELSE @]
  /\ UNCHANGED <<pipe, download, relay, decoder, resolver, transform, applied>>

ConsumerNext ==
  \/ ConsumerStart
  \/ ConsumerRead
  \/ ConsumerContinue
  \/ ConsumerBreak
  \/ GenReturn

\* return() is a job of the microtask queue: once called, it runs.
ConsumerSpec == ConsumerInit /\ [][ConsumerNext]_vars /\ WF_vars(GenReturn)

-----------------------------------------------------------------------------
(* download and downloadBatch of the backend client: the signed URLs are
   asked for at once, the files are then fetched and written one by one. *)

\* The ids of a batch at most.
MaxIds == 4

IdOf(k) == "id" \o ToString(k)

\* path.join(dir, name); a path given whole has no dir.
PathJoin(dir, name) == [dir |-> dir, name |-> name]

\* downloadBatch: ids.map(id => ({ id, destPath: path.join(destDir, id) }))
BatchPairs(n) == [k \in 1..n |-> [id |-> IdOf(k), destPath |-> PathJoin("out", IdOf(k))]]

\* download: the one pair, its path under dest when dest is a directory.
SinglePair(id, isDir) ==
  <<[id |-> id,
     destPath |-> (IF isDir THEN PathJoin("out", id) ELSE [dir |-> "", name |-> "out"])]>>

\* What the service answers to getDownloadUrls for n ids: a failure, or a
\* URL for some of the ids.
UrlsResponses(n) ==
  {[kind |-> "error", error |-> [message |-> "Request failed with status code 500"]]}
    \cup {[kind |-> "data", has |-> h] : h \in SUBSET {IdOf(k) : k \in 1..n}}

getDownloadUrls(ids, response) ==
  IF ids = <<>>
  THEN [kind |-> "error", error |-> [message |-> "No IDs provided"]]
  ELSE response

\* What the caller gets: the result of downloadBatchWithPaths, which download
\* turns into { data: { file: batch.data.files[0] } }.
Wrap(via, batch) ==
  IF via = "downloadBatch" \/ batch.kind = "error" THEN batch
  ELSE [kind |-> "data",
        data |-> [file |-> IF batch.data.files = <<>> THEN Absent
                           ELSE batch.data.files[1]]]

RECURSIVE NextWithUrl(_, _, _)
\* The first pair from position k on that has a URL, 0 when there is none:
\* if (!url) continue.
NextWithUrl(pairs, has, k) ==
  IF k > Len(pairs) THEN 0
  ELSE IF pairs[k].id \in has THEN k
  ELSE NextWithUrl(pairs, has, k + 1)

\* The for loop from position `from` on: up to the next axios.get, or to the
\* return after the last pair.
Loop(d, from) ==
  LET k == NextWithUrl(d.pairs, d.response.has, from)
  IN IF k = 0
     THEN [d EXCEPT !.state = "returned", !.k = 0,
                    !.out = Wrap(d.via, [kind |-> "data", data |-> [files |-> d.files]])]
     ELSE [d EXCEPT !.state = "getting", !.k = k,
                    !.attempts = Append(@, d.pairs[k].id)]

\* A catch that goes on with the next pair.
OnDownloadErrorSkips(d, message) == Loop(d, d.k + 1)

\* The catch of the loop: the call returns the error of this id.
OnDownloadError(d, message) ==
  [d EXCEPT !.state = "returned",
            !.out = Wrap(d.via,
                      [kind |-> "error",
                       error |-> [message |->
                         [text |-> "Failed to download",
                          id |-> d.pairs[d.k].id,
                          \* error?.message ?? "Unknown error"
                          cause |-> IF message = undefined THEN "Unknown error"
                                    ELSE message]]])]

DownloadInit ==
  /\ PipelineIdle /\ consumer = NoRun /\ transform = NoRun /\ applied = NoRun
  /\ relay = NoRun /\ decoder = NoRun /\ resolver = NoRun
  /\ \/ \E n \in 0..MaxIds : \E response \in UrlsResponses(n) :
          download = [state |-> "called", via |-> "downloadBatch",
                      pairs |-> BatchPairs(n), response |-> response, k |-> 0,
                      attempts |-> <<>>, files |-> <<>>, written |-> {},
                      failed |-> {}, out |-> Absent]
     \/ \E isDir \in BOOLEAN : \E response \in UrlsResponses(1) :
          download = [state |-> "called", via |-> "download",
                      pairs |-> SinglePair(IdOf(1), isDir), response |-> response,
                      k |-> 0, attempts |-> <<>>, files |-> <<>>, written |-> {},
                      failed |-> {}, out |-> Absent]

\* getDownloadUrls returns: its error is passed on, or the loop starts.
DownloadUrls ==
  /\ download.state = "called"
  /\ LET ids == [k \in DOMAIN download.pairs |-> download.pairs[k].id]
         r == getDownloadUrls(ids, download.response)
     IN download' = IF r.kind = "error"
                    THEN [download EXCEPT !.state = "returned",
                                          !.out = Wrap(download.via, r)]
                    ELSE Loop(download, 1)
  /\ UNCHANGED <<pipe, consumer, relay, decoder, resolver, transform, applied>>

\* The response has been piped into the file: files.push(destPath).
DownloadWritten ==
  /\ download.state = "getting"
  /\ LET destPath == download.pairs[download.k].destPath
     IN download' = Loop([download EXCEPT !.files = Append(@, destPath),
                                           !.written = @ \cup {destPath}],
                         download.k + 1)
  /\ UNCHANGED <<pipe, consumer, relay, decoder, resolver, transform, applied>>

\* axios.get rejects, or the writer reports an error.
DownloadFailed(message) ==
  /\ download.state = "getting"
  /\ download' = OnDownloadError(
                    [download EXCEPT !.failed = @ \cup {download.pairs[download.k].id}],
                    message)
  /\ UNCHANGED <<pipe, consumer, relay, decoder, resolver, transform, applied>>

DownloadNext ==
  \/ DownloadUrls
  \/ DownloadWritten
  \/ \E message \in {undefined, "socket hang up"} : DownloadFailed(message)

DownloadSpec == DownloadInit /\ [][DownloadNext]_vars

-----------------------------------------------------------------------------
(* Properties *)

\* Every request has been answered, every stream has ended and no
\* continuation is waiting to run.
Quiescent ==
  /\ call # "idle"
  /\ \A i \in Files : phase[i] = "closed"
  /\ ~ENABLED ResolveBatch

\* C1: the list batchUpload returns is ascending by file_index, and the
\* element at position k is the outcome of the item submitted at position k,
\* whichever file finished first.
C1_ResultInSubmissionOrder ==
  call = "resolved" =>
    /\ \A k \in 1..(Len(result) - 1) :
         result[k].value.file_index < result[k + 1].value.file_index
    /\ \A k \in 1..Len(result) :
         /\ result[k] = promise[k]
         /\ result[k].value.file_index = k - 1

\* A batch that resolved although the file that finished first was not the
\* first one submitted.
C1_Witness ==
  /\ call = "resolved"
  /\ first > 1

\* C2: the result has one outcome per item, an error outcome at exactly the
\* items whose transport failed and a data outcome at every other item.
C2_ErrorExactlyWhereTransportFailed ==
  call = "resolved" =>
    /\ Len(result) = Len(items)
    /\ \A k \in 1..Len(result) :
         /\ result[k].kind = "error" <=> xfer[k] = "failed"
         /\ result[k].kind = "data" <=> xfer[k] = "ok"

\* A resolved batch with a failed and a successful transport, the failed
\* file's commit stream having reported metadata_updated as well.
C2_Witness ==
  /\ call = "resolved"
  /\ \E i, j \in Files :
       /\ xfer[i] = "failed" /\ xfer[j] = "ok"
       /\ \E c \in 1..Len(calls[i]) : calls[i][c].h = "onCompleted"

\* Every signed URL of the batch carries a token and an object id.
AllWellFormed == \A k \in 1..Len(items) : ~parseSignedUrl(items[k].url).threw

\* The caller's handlers of the given names called for file i so far.
Called(i, hs) == {c \in 1..Len(calls[i]) : calls[i][c].h \in hs}

\* C3: the batch call never rejects and, once every network request has
\* responded or failed, has resolved, whatever fails and whatever the streams
\* hold. Stated for batches of well-formed signed URLs with a callback tree
\* given (a malformed URL is the case of C8, an absent tree that of C4).
C3_AlwaysResolves ==
  (AllWellFormed /\ on.present) =>
    /\ call # "rejected"
    /\ Quiescent => call = "resolved"

\* C4: called with N items and no callbacks, the batch still resolves with N
\* outcomes once every transport has succeeded or failed.
C4_ResolvesWithoutCallbacks ==
  (AllWellFormed /\ ~on.present /\ Quiescent) =>
    /\ call = "resolved"
    /\ Len(result) = Len(items)

\* C5: when a file's transport succeeds and its commit response has no body,
\* neither onCompleted nor a job callback fires for it and its outcome is a
\* data success. Stated for a batch with a callback tree given (an absent
\* tree is the case of C4).
C5_NoBodyStillData ==
  \A i \in Files :
    (on.present /\ xfer[i] = "ok" /\ commit[i] = "nobody") =>
      /\ Called(i, {"onCompleted"} \cup JobHandlers) = {}
      /\ promise[i].kind = "data"

\* C6: a failed commit request of a file whose transport succeeded changes no
\* outcome, its own or another file's, leaves the batch promise as it is, and
\* the file's outcome is never an error, nor the batch ever rejected.
C6_CommitFailureAbsorbed ==
  /\ [][\A i \in Files :
         (commit[i] = "none" /\ commit'[i] = "rejected") =>
           /\ promise' = promise
           /\ call' = call
           /\ result' = result]_vars
  /\ [](\A i \in Files :
         (commit[i] = "rejected" /\ xfer[i] = "ok") =>
           /\ promise[i].kind # "error"
           /\ call # "rejected")

\* The commit request of a successfully stored file has failed while another
\* file already holds its outcome.
C6_Witness ==
  \E i, j \in Files :
    /\ i # j
    /\ commit[i] = "rejected" /\ xfer[i] = "ok"
    /\ promise[j] # Pending

\* C7: the transport failure of file i touches nothing of any other file j,
\* and whatever file j is waiting for can still happen: its transport can
\* end, its commit response can arrive, its stream can deliver records.
C7_FailureIsolation ==
  /\ [][\A i \in Files :
         (xfer[i] = "none" /\ xfer'[i] = "failed") =>
           \A j \in Files \ {i} :
             /\ phase'[j] = phase[j]
             /\ xfer'[j] = xfer[j]
             /\ commit'[j] = commit[j]
             /\ promise'[j] = promise[j]
             /\ calls'[j] = calls[j]
             /\ putReq'[j] = putReq[j]
             /\ patchReq'[j] = patchReq[j]]_vars
  /\ [](\A i, j \in Files :
         (i # j /\ xfer[i] = "failed") =>
           /\ phase[j] = "transporting" =>
                ENABLED TransportOk(j) /\ ENABLED TransportFail(j, "Network Error")
           /\ phase[j] = "committing" => ENABLED CommitStream(j)
           /\ phase[j] = "streaming" =>
                /\ ENABLED StreamEnd(j)
                /\ events < MaxEvents =>
                     ENABLED StreamRecord(j, [data |-> [type |-> "metadata_updated",
                                                        object_id |-> axItems[j].object_id,
                                                        job_id |-> "job1"]]))

\* File i's transport has failed and file j, stored after that failure, holds
\* a data outcome.
C7_Witness ==
  \E i, j \in Files :
    /\ i # j
    /\ xfer[i] = "failed" /\ first = i
    /\ xfer[j] = "ok" /\ promise[j].kind = "data"

\* C8: one malformed signed URL in a batch does not make the call reject, and
\* the transport request of every other item is still issued.
C8_MalformedUrlConfined ==
  call # "idle" =>
    /\ call # "rejected"
    /\ \A k \in 1..Len(items) :
         ~parseSignedUrl(items[k].url).threw => k \in DOMAIN putReq

\* C9: the batch is never resolved while a file has neither a data nor an
\* error outcome.
C9_ResolvedOnlyWhenAllTerminal ==
  call = "resolved" =>
    /\ \A k \in Files : promise[k].kind \in {"data", "error"}
    /\ Len(result) = Len(promise)

\* A batch of several files resolved, one of them by an error outcome and
\* another by a data outcome.
C9_Witness ==
  /\ call = "resolved"
  /\ \E i, j \in Files : promise[i].kind = "data" /\ promise[j].kind = "error"

\* C10: every item's transport request is issued by the call itself: no
\* item waits for another, and all transports are in flight at once.
C10_AllLaunchedAtOnce ==
  call \in {"running", "resolved"} =>
    /\ DOMAIN putReq = 1..Len(items)
    /\ \A k \in 1..Len(items) : k \in Files /\ phase[k] # "pending"

\* All transports of a batch of several items in flight, none answered.
C10_Witness ==
  /\ call = "running"
  /\ Len(items) >= 2
  /\ \A k \in 1..Len(items) : phase[k] = "transporting" /\ xfer[k] = "none"

\* C11: once a file's transport has failed, onFailed has been reported for
\* it, its transport request is not issued again and no metadata-commit
\* request is issued for it.
C11_FailedTransportEndsTheFile ==
  \A i \in Files :
    xfer[i] = "failed" =>
      /\ "onFailed" \in on.handlers => Called(i, {"onFailed"}) # {}
      /\ phase[i] # "transporting"
      /\ patchReq[i] = <<>>

\* C12: every call of a caller's handler made for the item at position i of
\* the batch carries file_index = i (from 0) in its argument, whichever
\* handler it is and however the files' events interleave.
C12_EveryCallTagged ==
  \A i \in Files : \A c \in 1..Len(calls[i]) :
    /\ "file_index" \in DOMAIN calls[i][c].arg
    /\ calls[i][c].arg.file_index = i - 1

\* Two files whose handlers were both called, the second file's before the
\* first file's last, one of the calls being a job callback.
C12_Witness ==
  \E i, j \in Files :
    /\ i < j /\ first = j
    /\ Called(i, JobHandlers) # {}
    /\ Called(j, TopHandlers) # {}

\* C13: every element of the resolved list has exactly one of the two arms,
\* data or error, and the file_index in it is the submission index of the
\* file whose outcome it is (the object id of a data arm being that file's).
C13_OneArmWithSubmissionIndex ==
  call = "resolved" =>
    \A k \in 1..Len(result) :
      /\ Cardinality({a \in {"data", "error"} : result[k].kind = a}) = 1
      /\ \E j \in Files :
           /\ result[k] = promise[j]
           /\ result[k].value.file_index = j - 1
           /\ result[k].kind = "data" =>
                result[k].value.object_id = axItems[j].object_id
           /\ result[k].kind = "error" => xfer[j] = "failed"

\* A resolved list of two elements, a data arm and an error arm.
C13_Witness ==
  /\ call = "resolved"
  /\ Len(result) = 2
  /\ {result[1].kind, result[2].kind} = {"data", "error"}

\* The calls of the caller's handlers made for record k of the relayed stream.
RelayLogOf(k) == SelectSeq(relay.log, LAMBDA e : e.rec = k)

\* The handler named for a record type by the dispatch table of the relay.
MatchingHandler(type) ==
  CASE type = "metadata_updated"   -> "onCompleted"
    [] type = "indexing_started"   -> "job.onIndexingStarted"
    [] type = "indexing_completed" -> "job.onIndexingCompleted"
    [] type = "indexing_failed"    -> "job.onIndexingFailed"
    [] type = "transcription"      -> "job.onTranscription"

\* Record k of the relayed stream made exactly one call, of the handler
\* matching its type, with its object_id (and its job_id for a job handler).
RelayedOnce(k) ==
  LET d == relay.stream[k].data
      made == RelayLogOf(k)
  IN /\ Len(made) = 1
     /\ made[1].h = MatchingHandler(d.type)
     /\ made[1].arg.object_id = d.object_id
     /\ d.type # "metadata_updated" => made[1].arg.job_id = d.job_id

\* C14: every metadata_updated, indexing_started, indexing_completed and
\* indexing_failed record of a stream calls the matching handler of the
\* caller's tree and no other, once, with the record's ids; the calls are
\* made in the order of the records. (A handler the tree lacks is not called.)
C14_DispatchedToMatchingHandler ==
  relay.state # "idle" =>
    /\ \A c \in 1..(Len(relay.log) - 1) : relay.log[c].rec < relay.log[c + 1].rec
    /\ \A k \in 1..relay.pos :
         LET msg == relay.stream[k]
         IN (HasData(msg) /\ msg.data.type \in DataTypes \ {"transcription"}) =>
              IF MatchingHandler(msg.data.type) \in relay.tree.handlers
              THEN RelayedOnce(k)
              ELSE RelayLogOf(k) = <<>>

\* A whole stream of three records of three different dispatched types
\* relayed to a full tree, a job record first.
C14_Witness ==
  /\ relay.state = "ended"
  /\ relay.tree = Tree(AllHandlers)
  /\ Len(relay.stream) = 3
  /\ Len(relay.log) = 3
  /\ relay.log[1].h = "job.onIndexingFailed"
  /\ relay.log[2].h = "onCompleted"
  /\ relay.log[3].h = "job.onIndexingCompleted"

\* C15: every transcription record of a stream calls the caller's
\* job.onTranscription once, with the record's object_id and job_id.
C15_TranscriptionRelayed ==
  relay.state # "idle" =>
    \A k \in 1..relay.pos :
      LET msg == relay.stream[k]
      IN (HasData(msg) /\ msg.data.type = "transcription"
            /\ "job.onTranscription" \in relay.tree.handlers) =>
           RelayedOnce(k)

\* C16: a record carrying error calls no handler and does not end the
\* relay: once the run is over, every record after it (up to a record that
\* is neither data nor error, if any) has been dispatched to its handler.
C16_ErrorRecordSkipped ==
  relay.state # "idle" =>
    \A k \in 1..relay.pos :
      "error" \in DOMAIN relay.stream[k] =>
        /\ RelayLogOf(k) = <<>>
        /\ ~(relay.state = "threw" /\ relay.pos = k)
        /\ relay.state \in {"ended", "threw"} =>
             \A j \in (k + 1)..Len(relay.stream) :
               LET msg == relay.stream[j]
               IN (/\ \A m \in (k + 1)..j :
                        "error" \in DOMAIN relay.stream[m] \/ HasData(relay.stream[m])
                   /\ HasData(msg) /\ msg.data.type \in DataTypes \ {"transcription"}
                   /\ MatchingHandler(msg.data.type) \in relay.tree.handlers) =>
                    RelayedOnce(j)

\* A stream with an error record between two dispatched records, relayed
\* to its end: both records were dispatched and the promise is fulfilled by
\* the metadata_updated that came after the error.
C16_Witness ==
  /\ relay.state = "ended"
  /\ Len(relay.stream) = 3
  /\ "error" \in DOMAIN relay.stream[2]
  /\ RelayLogOf(1) # <<>> /\ RelayLogOf(1)[1].h = "job.onIndexingStarted"
  /\ RelayLogOf(3) # <<>> /\ RelayLogOf(3)[1].h = "onCompleted"
  /\ relay.promise.kind = "data"

\* The characters of a line given by its bytes.
Chars(line) == DecodeBytes(<<>>, line).text

\* The lines of the decoded text that are not JSON (blank ones included).
BadLines == {k \in 1..Len(decoder.lines) : ~JSONValid(Chars(decoder.lines[k]))}

\* C17: for a text of newline-terminated JSON lines, however its bytes are
\* cut into chunks, parseNDJSONStream ends having yielded the same records
\* as when the whole text arrives as one chunk.
C17_ChunkBoundaryInvariant ==
  (/\ decoder.state # "idle"
   /\ decoder.run.state # "reading"
   /\ decoder.terminated /\ BadLines = {}) =>
    /\ decoder.run.state = "ended"
    /\ decoder.run.out = parseNDJSONStream(<<decoder.text>>).out

\* A text of two JSON lines decoded from three chunks, the first cut inside
\* the two-byte character and the second inside a number.
C17_Witness ==
  /\ decoder.state # "idle"
  /\ decoder.run.state = "ended"
  /\ decoder.terminated /\ BadLines = {}
  /\ Len(decoder.input) = 3
  /\ decoder.input[1][Len(decoder.input[1])] = "C3"
  /\ decoder.input[2][Len(decoder.input[2])] = "1"
  /\ decoder.input[3][1] = "2"
  /\ Len(decoder.run.out) = 2

\* C18: when exactly one of the N lines of a text does not parse as JSON,
\* wherever it sits and whether or not the last line is terminated, the
\* decoder does not throw and ends having yielded exactly the records of
\* the other N-1 lines, in order.
C18_MalformedLineSkipped ==
  (/\ decoder.state # "idle"
   /\ decoder.run.state # "reading"
   /\ Cardinality(BadLines) = 1) =>
    /\ decoder.run.state = "ended"
    /\ Len(decoder.run.out) = Len(decoder.lines) - 1
    /\ decoder.run.out =
         LET good == SelectSeq(decoder.lines, LAMBDA l : JSONValid(Chars(l)))
         IN [k \in 1..Len(good) |-> JSONParse(Chars(good[k]))]

\* Three lines of which the middle one is not JSON, decoded to the two
\* records around it; and the same with the bad line last and unterminated.
C18_Witness ==
  /\ decoder.state # "idle"
  /\ decoder.run.state = "ended"
  /\ Len(decoder.lines) = 3
  /\ \/ BadLines = {2} /\ decoder.lines[2] = <<"x">> /\ decoder.terminated
     \/ BadLines = {3} /\ decoder.lines[3] = <<"x">> /\ ~decoder.terminated
  /\ Len(decoder.input) >= 2
  /\ Len(decoder.run.out) = 2

\* The values the query of a URL carries for a name.
ValuesOf(url, name) ==
  {url.query[k].value : k \in {j \in 1..Len(url.query) : url.query[j].name = name}}

\* The URL lacks a reserved parameter: it does not parse or carries no pair
\* of one of the two names.
MissingReserved(url) ==
  \/ ~url.parseable
  \/ ValuesOf(url, TokenParam) = {}
  \/ ValuesOf(url, ObjIdParam) = {}

\* C19: for a parseable URL that carries a non-empty value for
\* X-Zapdos-Token and one for X-Zapdos-Obj-Id, parseSignedUrl returns these
\* two values, and a cleaned URL whose query is the original one without the
\* pairs of the two reserved names, the other pairs kept in their order.
C19_ReservedParamsExtracted ==
  (/\ resolver.state \in {"returned", "threw"}
   /\ resolver.url.parseable
   /\ \E t \in {"a", "b"} : ValuesOf(resolver.url, TokenParam) = {t}
   /\ \E o \in {"a", "b"} : ValuesOf(resolver.url, ObjIdParam) = {o}) =>
    /\ resolver.state = "returned"
    /\ ValuesOf(resolver.url, TokenParam) = {resolver.out.token}
    /\ ValuesOf(resolver.url, ObjIdParam) = {resolver.out.object_id}
    /\ resolver.out.cleanedUrl.host = resolver.url.host
    /\ resolver.out.cleanedUrl.query =
         SelectSeq(resolver.url.query, LAMBDA pr : pr.name \notin {TokenParam, ObjIdParam})

\* A URL resolved to a token and an object id of different values, its one
\* other parameter, between the two reserved ones, kept.
C19_Witness ==
  /\ resolver.state = "returned"
  /\ Len(resolver.url.query) = 3
  /\ resolver.url.query[2].name = "sig"
  /\ resolver.out.token # resolver.out.object_id
  /\ Len(resolver.out.cleanedUrl.query) = 1

\* C20 as stated: for a URL that lacks a reserved parameter the resolver
\* reports both values absent and does not throw.
C20_BothAbsentNoThrow ==
  (resolver.state \in {"extracted", "returned", "threw"}
     /\ MissingReserved(resolver.url)) =>
    /\ resolver.x.params[TokenParam] = undefined
    /\ resolver.x.params[ObjIdParam] = undefined
    /\ resolver.state # "threw"

\* C20: for a URL that lacks a reserved parameter, extractCustomParams
\* returns (it does not throw) and reports the parameter the URL lacks
\* absent, both absent and the URL untouched when the URL does not parse;
\* parseSignedUrl then fails with "Malformed signed url" and never returns.
C20_MissingParameterReported ==
  (resolver.state \in {"extracted", "returned", "threw"}
     /\ MissingReserved(resolver.url)) =>
    /\ \A p \in {TokenParam, ObjIdParam} :
         (~resolver.url.parseable \/ ValuesOf(resolver.url, p) = {}) =>
           resolver.x.params[p] = undefined
    /\ ~resolver.url.parseable => resolver.x.cleanedUrl = resolver.url
    /\ resolver.state # "returned"
    /\ resolver.state = "threw" =>
         resolver.out = [threw |-> TRUE, message |-> "Malformed signed url"]

\* A parseable URL with an object id and no token: the object id was
\* reported, the token absent, and parseSignedUrl threw.
C20_Witness ==
  /\ resolver.state = "threw"
  /\ resolver.url.parseable
  /\ ValuesOf(resolver.url, TokenParam) = {}
  /\ resolver.x.params[ObjIdParam] \in {"a", "b"}
  /\ resolver.x.params[TokenParam] = undefined

\* arg is { ...a, ...ext }: the keys of both, the values of ext where it has
\* the key and those of a elsewhere.
IsMerged(arg, a, ext) ==
  /\ DOMAIN arg = DOMAIN a \cup DOMAIN ext
  /\ \A k \in DOMAIN ext : arg[k] = ext[k]
  /\ \A k \in DOMAIN a \ DOMAIN ext : arg[k] = a[k]

C22_NoHandlerRunsInTransform ==
  transform.state = "returned" =>
    /\ transform.invoked = <<>>
    /\ \A c \in 1..Len(transform.log) :
         LET e == transform.log[c]
             h == LeafAt(transform.given, e.path)
         IN IF h.kind = "function"
            THEN Len(e.calls) = 1 /\ e.calls[1].h = h.id
            ELSE e.calls = <<>>

\* The object prepareMinimalCallbacks returned for a tree with an
\* onCompleted handler, its onCompleted called twice and its onFailed, which
\* the tree lacks, never: the handler ran twice.
C22_Witness ==
  /\ transform.state = "returned" /\ transform.via = "prepareMinimalCallbacks"
  /\ LeafAt(transform.given, <<"onCompleted">>).kind = "function"
  /\ LeafAt(transform.given, <<"onFailed">>) = Missing
  /\ Len(transform.log) = 2
  /\ \A c \in 1..2 :
       /\ transform.log[c].path = <<"onCompleted">>
       /\ Len(transform.log[c].calls) = 1

\* A leaf that is no object is transformed as unextendCallbacks says: a
\* function to a function closed over the leaf and ext, another value to
\* itself.
LeafKept(a, b, ext) ==
  IF a.kind = "function"
  THEN b.kind = "function" /\ b.id = "wrapper" /\ b.of = a /\ b.ext = ext
  ELSE b = a

\* C23: unextendCallbacks returns undefined for an absent tree; otherwise an
\* object with the keys of the tree at every level, a function for every
\* function, a nested object transformed in the same way with the same ext,
\* every other value as it was; and the tree given is left as it was.
C23_StructurePreserved ==
  (transform.state = "returned" /\ transform.via = "unextendCallbacks") =>
    /\ transform.callbacks = transform.given
    /\ IF transform.given.kind \in {"undefined", "null"}
       THEN transform.result = Absent
       ELSE /\ transform.result.kind = "object"
            /\ DOMAIN transform.result.fields = DOMAIN transform.given.fields
            /\ \A k \in DOMAIN transform.given.fields :
                 LET a == transform.given.fields[k]
                     b == transform.result.fields[k]
                 IN IF a.kind = "object"
                    THEN /\ b.kind = "object"
                         /\ DOMAIN b.fields = DOMAIN a.fields
                         /\ \A j \in DOMAIN a.fields :
                              LeafKept(a.fields[j], b.fields[j], transform.ext)
                    ELSE LeafKept(a, b, transform.ext)

\* A tree with a handler, a null leaf and a job branch that holds a handler
\* and a number, transformed.
C23_Witness ==
  /\ transform.state = "returned" /\ transform.via = "unextendCallbacks"
  /\ transform.ext = [file_index |-> 1]
  /\ LeafAt(transform.given, <<"onStored">>).kind = "function"
  /\ LeafAt(transform.given, <<"label">>) = Null
  /\ LeafAt(transform.given, <<"job", "onIndexingStarted">>).kind = "function"
  /\ LeafAt(transform.given, <<"job", "retries">>) = Value("3")
  /\ LeafAt(transform.result, <<"job", "onIndexingStarted">>).id = "wrapper"

\* A finished call of the progress callback whose tree has an onProgress.
ProgressReported ==
  /\ applied.state = "returned" /\ applied.fn = "onUploadProgress"
  /\ applied.tree.present /\ "onProgress" \in applied.tree.handlers

TotalKnown(ev) == "total" \in DOMAIN ev /\ ev.total > 0

\* C24 as stated: the value passed to onProgress is 100 * loaded / total
\* rounded to the nearest whole number, a half going up, whenever total is
\* known and positive.
C24_RoundedHalfUp ==
  (ProgressReported /\ TotalKnown(applied.arg)) =>
      /\ Len(applied.out.calls) = 1
      /\ applied.out.calls[1].arg.value =
           (200 * applied.arg.loaded + applied.arg.total)
              \div (2 * applied.arg.total)

\* C24, amended: the progress callback never throws; the value it passes to
\* onProgress is a whole number within one half of 100 * loaded / total when
\* total is known and positive (hence within 0..100 when loaded <= total), and
\* is 0 when total is unknown or zero.
C24_NearestWholeNumber ==
  /\ (applied.state = "returned" /\ applied.fn = "onUploadProgress") =>
        ~applied.out.threw
  /\ ProgressReported =>
        /\ Len(applied.out.calls) = 1
        /\ applied.out.calls[1].h = "onProgress"
        /\ LET v == applied.out.calls[1].arg.value
               ev == applied.arg
           IN IF TotalKnown(ev)
              THEN /\ v \in Nat
                   /\ 2 * ev.total * v - 200 * ev.loaded \in -ev.total..ev.total
                   /\ ev.loaded <= ev.total => v \in 0..100
              ELSE v = 0

\* 23 bytes of 40 are 57.5 percent, reported as 57.
C24_Witness ==
  /\ ProgressReported
  /\ applied.arg = [loaded |-> 23, total |-> 40]
  /\ applied.out.calls[1].arg.value = 57

\* A finished run of the catch of axiosUpload whose tree has an onFailed.
FailureReported ==
  /\ applied.state = "returned" /\ applied.fn = "catch"
  /\ applied.tree.present /\ "onFailed" \in applied.tree.handlers

\* C25: on a transport failure the message given to onFailed is the message
\* of the structured error body of the response if there is one, otherwise the
\* error's own message if it is not empty, otherwise a generic fallback; and
\* the message of the file's error outcome is the same message.
C25_StructuredBodyPreferred ==
  FailureReported =>
      /\ Len(applied.out.calls) = 1
      /\ applied.out.calls[1].h = "onFailed"
      /\ LET given == applied.out.calls[1].arg.message
             error == applied.arg
         IN /\ IF error.response # Absent THEN given = error.response.msg
               ELSE IF error.message # "" THEN given = error.message
               ELSE given # ""
            /\ applied.out.resolve.kind = "error"
            /\ applied.out.resolve.value.message = given

\* The URL names the parameter or carries the string.
UrlMentions(url, str) ==
  \/ url.host = str
  \/ \E q \in DOMAIN url.query :
        url.query[q].name = str \/ url.query[q].value = str

\* The commit request carries the string outside its X-Zapdos-Token header.
CommitLeaks(req, str) ==
  \/ \E p \in DOMAIN req.url.path : req.url.path[p] = str
  \/ req.url.base = str
  \/ req.headers.contentType = str
  \/ req.body.metadata.file_name = str
  \/ req.body.metadata.content_type = str
  \/ req.body.metadata.kind = str

\* C26: the transport request of a file has neither X-Zapdos-Token nor
\* X-Zapdos-Obj-Id in its URL and carries no file's token, in its URL or in
\* its headers; a file's token is sent only as the X-Zapdos-Token header of
\* that file's commit requests.
C26_TokenOnlyInCommitHeader ==
  \A k \in DOMAIN putReq :
      /\ ~UrlMentions(putReq[k].url, TokenParam)
      /\ ~UrlMentions(putReq[k].url, ObjIdParam)
      /\ putReq[k].headers = undefined
      /\ \A j \in DOMAIN putReq :
            /\ ~UrlMentions(putReq[k].url, TokenOf(j))
            /\ \A c \in DOMAIN patchReq[k] :
                  /\ ~CommitLeaks(patchReq[k][c], TokenOf(j))
                  /\ patchReq[k][c].headers.xZapdosToken = TokenOf(j) <=> j = k

\* Both files have had their transport and their commit requests issued.
C26_Witness ==
  /\ Len(putReq) = MaxFiles
  /\ \A k \in DOMAIN putReq :
        /\ UrlMentions(items[k].url, TokenOf(k))
        /\ putReq[k].url.query # <<>>
        /\ patchReq[k] # <<>>
        /\ patchReq[k][1].headers.xZapdosToken = TokenOf(k)

\* C27: the transport request of every file carries a Content-Type header:
\* the content type the caller gave for the item, or application/octet-stream
\* when the caller gave none.
C27_TransportCarriesContentType ==
  \A k \in DOMAIN putReq :
      /\ putReq[k].headers # undefined
      /\ putReq[k].headers.contentType =
           (IF items[k].content_type = undefined
            THEN "application/octet-stream"
            ELSE items[k].content_type)

\* A finished call of createClient with an options object.
ClientRequested ==
  /\ applied.state = "returned" /\ applied.fn = "createClient"
  /\ applied.arg # Absent

\* The text is an http or https URL: the scheme, "//" and a host.
HttpUrl(text) ==
  /\ Len(text) > 3
  /\ SubSeq(text, 1, 3) \in {<<"https:", "/", "/">>, <<"http:", "/", "/">>}
  /\ text[4] # "/"

C29_OutcomeWrittenOnce ==
  [][\A i \in Files :
       /\ promise[i] # Pending => promise'[i] = promise[i]
       /\ promise'[i] # promise[i] =>
             /\ calls'[i] # calls[i] \/ xfer'[i] # xfer[i] \/ events' # events
             /\ \A j \in Files \ {i} :
                   /\ promise'[j] = promise[j]
                   /\ calls'[j] = calls[j]
                   /\ phase'[j] = phase[j]
                   /\ xfer'[j] = xfer[j]
                   /\ commit'[j] = commit[j]]_vars

\* A file whose onFailed was followed by an onCompleted keeps the error of
\* the onFailed as its outcome.
C29_Witness ==
  \E i \in Files :
    \E c1, c2 \in 1..Len(calls[i]) :
      /\ c1 < c2
      /\ calls[i][c1].h = "onFailed" /\ calls[i][c2].h = "onCompleted"
      /\ promise[i] = [kind |-> "error", value |-> calls[i][c1].arg]

\* C30: for no file are the caller's onFailed and onCompleted both called;
\* onFailed is called only for a file whose outcome is an error, onCompleted
\* only for a file whose outcome is a data success.
C30_TerminalCallbacksAgree ==
  \A i \in Files :
    /\ ~(Called(i, {"onFailed"}) # {} /\ Called(i, {"onCompleted"}) # {})
    /\ Called(i, {"onFailed"}) # {} => promise[i].kind = "error"
    /\ Called(i, {"onCompleted"}) # {} => promise[i].kind = "data"

\* The positions in the calls of file i of its onStored.
Stored(i) == Called(i, {"onStored"})

\* C31: a file whose transport has not ended has no commit request; a file
\* whose transport succeeded has exactly one, issued with the end of the
\* transport, its onStored (when the caller gave one) has been called, and
\* every onCompleted and job callback of the file comes after its onStored.
\* No step adds a commit request to a file whose transport has ended.
C31_StagesSequential ==
  /\ [](\A i \in Files :
         /\ xfer[i] = "none" =>
               /\ patchReq[i] = <<>>
               /\ Called(i, {"onStored", "onCompleted"} \cup JobHandlers) = {}
         /\ xfer[i] = "ok" =>
               /\ Len(patchReq[i]) = 1
               /\ "onStored" \in on.handlers => Cardinality(Stored(i)) = 1
               /\ \A c \in Called(i, {"onCompleted"} \cup JobHandlers) :
                     \A st \in Stored(i) : st < c)
  /\ [][\A i \in Files :
          xfer[i] # "none" => patchReq'[i] = patchReq[i]]_vars

\* A stored file with one commit request whose onStored was followed by a
\* job callback and by onCompleted.
C31_Witness ==
  \E i \in Files :
    /\ xfer[i] = "ok" /\ Len(patchReq[i]) = 1
    /\ Stored(i) # {}
    /\ Called(i, JobHandlers) # {}
    /\ Called(i, {"onCompleted"}) # {}

\* C32: every commit request issued for the item at position i is a PATCH of
\* {baseUrl}/v1/storage/{object_id} with the object id and the token of the
\* signed URL of item i and the metadata of the file of item i.
C32_CommitRequestOfOwnItem ==
  \A i \in Files :
    \A c \in DOMAIN patchReq[i] :
      LET req == patchReq[i][c]
      IN /\ req.method = "PATCH"
         /\ req.url = [base |-> "baseUrl",
                       path |-> <<"v1", "storage",
                                  SearchGet(items[i].url.query, ObjIdParam)>>]
         /\ req.headers.xZapdosToken = SearchGet(items[i].url.query, TokenParam)
         /\ req.body.create_indexing_job
         /\ req.body.metadata.file_name = items[i].name
         /\ req.body.metadata.size = items[i].size
         /\ req.body.metadata.content_type \in
               {items[i].content_type, "application/octet-stream"} \ {undefined}
         /\ \A j \in Files \ {i} :
               /\ req.url.path[3] # SearchGet(items[j].url.query, ObjIdParam)
               /\ req.headers.xZapdosToken #
                     SearchGet(items[j].url.query, TokenParam)
               /\ req.body.metadata.file_name # items[j].name

\* Both files have their commit request, the second file having reached its
\* outcome first.
C32_Witness ==
  /\ Len(patchReq) = MaxFiles
  /\ \A i \in Files : Len(patchReq[i]) = 1
  /\ first = MaxFiles

\* A run of the decoder that is over.
DecoderOver == decoder.state # "idle" /\ decoder.run.state # "reading"

\* C33: whatever the lines of the text, however its bytes are cut into
\* chunks and whether or not the last line is terminated, the decoder ends
\* without throwing and has yielded one record for each line that is not
\* blank and parses as JSON, in the order of the lines, and nothing else.
C33_OneRecordPerJSONLine ==
  DecoderOver =>
    /\ decoder.run.state = "ended"
    /\ LET text == Split(Chars(decoder.text))
           good == SelectSeq(text, LAMBDA l : Trim(l) # <<>> /\ JSONValid(l))
       IN /\ Len(decoder.run.out) = Len(good)
          /\ \A k \in 1..Len(good) : decoder.run.out[k] = JSONParse(good[k])

\* A text whose second line is blank and whose last line, a JSON value, is
\* not terminated: two records, the last line's among them.
C33_Witness ==
  /\ DecoderOver
  /\ Len(decoder.lines) = MaxLines
  /\ ~decoder.terminated
  /\ JSONValid(Chars(decoder.lines[1]))
  /\ Trim(decoder.lines[2]) = <<>>
  /\ decoder.lines[MaxLines] = <<"1", "2">>
  /\ Len(decoder.input) > 1
  /\ decoder.run.out[Len(decoder.run.out)] = <<"1", "2">>

RECURSIVE Flatten(_)
\* The bytes of a sequence of chunks.
Flatten(chunks) ==
  IF chunks = <<>> THEN <<>> ELSE Head(chunks) \o Flatten(Tail(chunks))

\* The text decoded from the chunks the decoder has read so far: an
\* unfinished character at the end of the last chunk is not text yet.
Received ==
  LET bytes == SubSeq(decoder.text, 1,
                      Len(decoder.text) - Len(Flatten(decoder.chunks)))
  IN Chars(bytes)

\* The records of the pieces, those that are blank or not JSON left out.
RecordsOf(pieces) ==
  LET good == SelectSeq(pieces, LAMBDA l : Trim(l) # <<>> /\ JSONValid(l))
  IN [k \in 1..Len(good) |-> JSONParse(good[k])]

\* C34: after every chunk the buffer of the decoder holds no line feed and is
\* exactly the text received since the last line feed (all of it when there
\* was none), and the records yielded are those of the lines received before
\* that line feed: nothing of the input is lost and nothing is taken twice.
C34_BufferIsTextSinceNewline ==
  (decoder.state # "idle" /\ decoder.run.state = "reading") =>
    LET pieces == Split(Received)
    IN /\ \A k \in 1..Len(decoder.run.buffer) : decoder.run.buffer[k] # LF
       /\ decoder.run.buffer = pieces[Len(pieces)]
       /\ decoder.run.out = RecordsOf(SubSeq(pieces, 1, Len(pieces) - 1))

\* Two chunks read, the second ending inside a line after a line feed: the
\* buffer holds the part of the line received.
C34_Witness ==
  /\ decoder.state # "idle" /\ decoder.run.state = "reading"
  /\ Len(decoder.input) = 3 /\ Len(decoder.chunks) = 1
  /\ \E k \in 1..Len(decoder.input[2]) : decoder.input[2][k] = LF
  /\ decoder.run.buffer = <<"1">>
  /\ decoder.chunks[1][1] = "2"
  /\ decoder.run.out # <<>>

\* C35: once the loop has broken out, its return() completes the generator
\* and the loop goes on past its end; no read is issued from the break on,
\* and after it no read is outstanding and the generator is over, whatever
\* the stream still has to deliver.
C35_EarlyBreakNoDeadlock ==
  /\ [][consumer.broke => consumer'.reads = consumer.reads]_vars
  /\ []((consumer.broke /\ consumer.loop = "after") => consumer.gen.at = "done")
  /\ [](consumer.loop = "returning" => consumer.gen.at = "yield")
  /\ (consumer.loop = "returning" ~> consumer.loop = "after")

\* The loop broke at its first record, with a line of the chunk not yet
\* parsed and a chunk of the stream not yet read, and has gone on.
C35_Witness ==
  /\ consumer.broke /\ consumer.loop = "after"
  /\ Len(consumer.got) = 1
  /\ consumer.gen.lines # <<>>
  /\ consumer.chunks # <<>>

\* The records of the stream of file i that handleStream dispatches.
DataRecords(i) == {msg \in Records(patchReq[i][Len(patchReq[i])]) : HasData(msg)}

\* C36: once the call has resolved, the list it resolved with never changes;
\* a stream that is open then stays open, its records can still arrive, and
\* each record that arrives is dispatched as before: the caller's handler for
\* it, if there is one, is called with the record's ids and the file index.
C36_RelayOutlivesBatchPromise ==
  /\ [][call = "resolved" =>
          /\ call' = call /\ result' = result /\ promise' = promise]_vars
  /\ [][\A i \in Files :
          (call = "running" /\ call' = "resolved") => phase'[i] = phase[i]]_vars
  /\ [](\A i \in Files :
          (call = "resolved" /\ phase[i] = "streaming" /\ events < MaxEvents) =>
            \A msg \in DataRecords(i) : ENABLED StreamRecord(i, msg))
  /\ [][\A i \in Files :
          (call = "resolved" /\ phase[i] = "streaming" /\ events' # events) =>
            \/ calls'[i] = calls[i]
            \/ \E msg \in DataRecords(i) :
                 /\ Dispatch(msg).h \in on.handlers
                 /\ calls'[i] = Append(calls[i],
                       [h |-> Dispatch(msg).h,
                        arg |-> [f \in DOMAIN Dispatch(msg).arg \cup {"file_index"} |->
                                   IF f = "file_index" THEN i - 1
                                   ELSE Dispatch(msg).arg[f]]])]_vars

\* The call has resolved and a file whose stream is still open has had a job
\* callback called after its onCompleted.
C36_Witness ==
  /\ call = "resolved"
  /\ \E i \in Files :
       /\ phase[i] = "streaming"
       /\ \E c1, c2 \in 1..Len(calls[i]) :
            /\ c1 < c2
            /\ calls[i][c1].h = "onCompleted"
            /\ calls[i][c2].h = "job.onIndexingCompleted"
       /\ result[i] = promise[i]

\* The positions of the pairs of a name in the query of a URL.
PairsOf(url, name) == {j \in 1..Len(url.query) : url.query[j].name = name}

\* The value a URL gives a name: that of the first pair of the name.
FirstValue(url, name) ==
  url.query[CHOOSE j \in PairsOf(url, name) : \A k \in PairsOf(url, name) : j <= k].value

\* The URL gives the name no value, or an empty one.
AbsentOrEmpty(url, name) ==
  \/ ~url.parseable
  \/ PairsOf(url, name) = {}
  \/ FirstValue(url, name) = ""

\* C37: parseSignedUrl throws "Malformed signed url" exactly when the URL does
\* not parse or gives the token or the object id no value or an empty one;
\* otherwise it returns, with the two values the URL gives.
C37_MalformedExactlyWhenMissing ==
  resolver.state \in {"returned", "threw"} =>
    LET url == resolver.url
        malformed == AbsentOrEmpty(url, TokenParam) \/ AbsentOrEmpty(url, ObjIdParam)
    IN /\ resolver.state = "threw" <=> malformed
       /\ resolver.state = "threw" => 
            resolver.out = [threw |-> TRUE, message |-> "Malformed signed url"]
       /\ resolver.state = "returned" =>
            /\ ~resolver.out.threw
            /\ resolver.out.token = FirstValue(url, TokenParam)
            /\ resolver.out.object_id = FirstValue(url, ObjIdParam)

\* A parseable URL with an object id and an empty token: thrown.
C37_Witness ==
  /\ resolver.state = "threw"
  /\ resolver.url.parseable
  /\ ~AbsentOrEmpty(resolver.url, ObjIdParam)
  /\ PairsOf(resolver.url, TokenParam) # {}
  /\ FirstValue(resolver.url, TokenParam) = ""

\* C38: the promise of uploadBatch is never rejected: whatever goes wrong,
\* it is fulfilled with a value { error: { message } }.
C38_UploadBatchNeverRejects ==
  (applied.state = "returned" /\ applied.fn = "uploadBatch") =>
    /\ applied.out.settled = "fulfilled"
    /\ applied.out.value.kind \in {"results", "error"}
    /\ applied.out.value.kind = "error" => applied.out.value.error.message # ""

\* The position of an id among the pairs of the call.
PosOf(id) == CHOOSE k \in DOMAIN download.pairs : download.pairs[k].id = id

C40_DownloadedFileOrError ==
  (download.state = "returned" /\ download.via = "download") =>
    \/ download.out.kind = "error"
    \/ /\ download.out.kind = "data"
       /\ download.out.data.file # Absent
       /\ download.out.data.file \in download.written

=============================================================================
